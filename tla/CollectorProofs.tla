-------------------------- MODULE CollectorProofs ---------------------------
(***************************************************************************)
(* The processes that record a market, for any sizes and counts.  First the *)
(* buffered writer and the collector connection that owns it, with failing *)
(* disks and cancellations at every await; then the watchdog of the        *)
(* deployed recorder, for any set of markets, any ages and any number of   *)
(* faults; last the Hummingbot recorder itself, with failing dumps and     *)
(* kills, and what the loader and the position context make of its files.  *)
(*                                                                         *)
(* RecordingInv is what this last part rests on.  Stored accounts for every *)
(* row a recorder captured: it is in the files, held, or lost to a kill.   *)
(* KeptOk says that the states the context keeps, and the segments they are *)
(* cut into, answer like all states seen so far; Followed, since when the  *)
(* position is the present one, and that its extremes are those of the     *)
(* returns since then.                                                     *)
(***************************************************************************)
EXTENDS CollectorSession, Watchdog, Recording, ArithmeticProofs,
        SequenceTheorems, TLAPS

-----------------------------------------------------------------------------
(***************************************************************************)
(* The writer alone, whatever its client does.                             *)
(***************************************************************************)

(***************************************************************************)
(* Sequences of records.                                                   *)
(***************************************************************************)

(* What of a queue is records.                                             *)
Records(s) == IF s # <<>> /\ Last(s) = Stop THEN Front(s) ELSE s

LEMMA RecordsAlone ==
    ASSUME NEW s \in Seq(Nat)
    PROVE  Records(s) = s
<1>1. CASE s = <<>>
  BY <1>1 DEF Records
<1>2. CASE s # <<>>
  <2>1. Len(s) \in 1 .. Len(s)
    BY <1>2
  <2>2. s[Len(s)] \in Nat
    BY <2>1
  <2>3. Last(s) # Stop
    BY <2>2, WriterAssumption DEF Last
  <2> QED BY <2>3 DEF Records
<1> QED BY <1>1, <1>2

LEMMA RecordsBeforeStop ==
    ASSUME NEW s \in Seq(Nat)
    PROVE  Records(Append(s, Stop)) = s
<1> DEFINE r == Append(s, Stop)
<1>1. s \in Seq(Nat \cup {Stop})
  BY SeqMonotonic
<1>2. /\ r \in Seq(Nat \cup {Stop})
      /\ r # <<>>
      /\ Len(r) = Len(s) + 1
      /\ \A i \in 1 .. Len(s) : r[i] = s[i]
      /\ r[Len(s) + 1] = Stop
  BY <1>1, AppendProperties
<1>3. Len(s) \in Nat
  OBVIOUS
<1> HIDE DEF r
<1>4. Last(r) = Stop
  BY <1>2 DEF Last
<1>5. Front(r) = SubSeq(r, 1, Len(s))
  BY <1>2, <1>3 DEF Front
<1>6. \A i \in 1 .. Len(s) : r[i] \in Nat
  <2> SUFFICES ASSUME NEW i \in 1 .. Len(s) PROVE r[i] \in Nat
    OBVIOUS
  <2> QED BY <1>2
<1>7. /\ SubSeq(r, 1, Len(s)) \in Seq(Nat)
      /\ Len(SubSeq(r, 1, Len(s))) = Len(s)
      /\ \A i \in 1 .. Len(s) : SubSeq(r, 1, Len(s))[i] = r[i]
  <2>1. /\ SubSeq(r, 1, Len(s)) \in Seq(Nat)
        /\ Len(SubSeq(r, 1, Len(s))) = IF 1 <= Len(s) THEN Len(s) - 1 + 1 ELSE 0
        /\ \A i \in 1 .. (Len(s) - 1 + 1) : SubSeq(r, 1, Len(s))[i] = r[1 + i - 1]
    BY <1>3, <1>6, SubSeqProperties
  <2> QED BY <1>3, <2>1
<1>8. SubSeq(r, 1, Len(s)) = s
  BY <1>2, <1>7, SeqEqual
<1> QED BY <1>2, <1>4, <1>5, <1>8 DEF Records, r

LEMMA Regroup ==
    ASSUME NEW s \in Seq(Nat), NEW t \in Seq(Nat), NEW u \in Seq(Nat)
    PROVE  /\ (s \o t) \o u = s \o (t \o u)
           /\ t \o u \in Seq(Nat)
<1>1. (s \o t) \o u = s \o (t \o u)
  BY ConcatAssociative, SMTT(30)
<1>2. t \o u \in Seq(Nat)
  BY ConcatProperties
<1> QED BY <1>1, <1>2

LEMMA Regrouped ==
    \A s, t, u \in Seq(Nat) : (s \o t) \o u = s \o (t \o u)
BY Regroup

LEMMA AppendToConcat ==
    ASSUME NEW s \in Seq(Nat), NEW t \in Seq(Nat), NEW e \in Nat
    PROVE  Append(s \o t, e) = s \o Append(t, e)
<1>1. s \o t \in Seq(Nat) /\ <<e>> \in Seq(Nat)
  BY ConcatProperties
<1>2. Append(s \o t, e) = (s \o t) \o <<e>>
  BY <1>1, AppendIsConcat
<1>3. Append(t, e) = t \o <<e>>
  BY AppendIsConcat
<1> QED BY <1>1, <1>2, <1>3, ConcatAssociative

(* The head of the queue goes to the end of the batch.                     *)
LEMMA MoveHead ==
    ASSUME NEW s \in Seq(Nat), NEW t \in Seq(Nat), t # <<>>
    PROVE  /\ Head(t) \in Nat /\ Tail(t) \in Seq(Nat)
           /\ Append(s, Head(t)) \o Tail(t) = s \o t
<1>1. Head(t) \in Nat /\ Tail(t) \in Seq(Nat) /\ <<Head(t)>> \in Seq(Nat)
  BY HeadTailProperties
<1>2. t = <<Head(t)>> \o Tail(t)
  <2>1. 1 \in 1 .. Len(t) /\ Len(t) \in 1 .. Len(t) /\ Len(t) \in Nat
    BY LenProperties
  <2>2. SubSeq(t, 1, Len(t)) = <<t[1]>> \o SubSeq(t, 1 + 1, Len(t))
    BY <2>1, SubSeqRecursiveFirst
  <2>3. SubSeq(t, 1, Len(t)) = t
    BY SubSeqFull
  <2>4. Tail(t) = SubSeq(t, 2, Len(t)) /\ Head(t) = t[1]
    BY TailIsSubSeq
  <2> QED BY <2>2, <2>3, <2>4
<1>3. Append(s, Head(t)) = s \o <<Head(t)>>
  BY <1>1, AppendIsConcat
<1>4. (s \o <<Head(t)>>) \o Tail(t) = s \o (<<Head(t)>> \o Tail(t))
  BY <1>1, ConcatAssociative, SMTT(30)
<1> QED BY <1>1, <1>2, <1>3, <1>4

LEMMA ConcatIsPrefix ==
    ASSUME NEW s \in Seq(Nat), NEW t \in Seq(Nat)
    PROVE  IsPrefix(s, s \o t)
<1>1. /\ s \o t \in Seq(Nat)
      /\ Len(s \o t) = Len(s) + Len(t)
      /\ Len(s) \in Nat /\ Len(t) \in Nat
  BY ConcatProperties
<1>2. SubSeq(s, 1, Len(s)) = SubSeq(s \o t, 1, Len(s))
  <2>1. CASE Len(s) = 0
    BY <2>1, SubSeqEmpty
  <2>2. CASE Len(s) > 0
    <3>1. 1 \in 1 .. Len(s) /\ Len(s) \in 1 .. Len(s)
      BY <1>1, <2>2
    <3> QED BY <3>1, SubSeqOfConcat1
  <2> QED BY <1>1, <2>1, <2>2
<1> QED BY <1>1, <1>2 DEF IsPrefix

(* The part of a batch that a failing write leaves in the files.           *)
LEMMA SplitBatch ==
    ASSUME NEW t \in Seq(Nat), NEW n \in 0 .. Len(t) - 1
    PROVE  \E rest \in Seq(Nat) : /\ SubSeq(t, 1, n) \in Seq(Nat)
                                  /\ SubSeq(t, 1, n) \o rest = t
<1>1. Len(t) \in Nat /\ n \in Nat /\ n <= Len(t)
  BY LenProperties
<1>2. \A i \in 1 .. Len(t) : t[i] \in Nat
  OBVIOUS
<1>3. SubSeq(t, 1, n) \in Seq(Nat) /\ SubSeq(t, n + 1, Len(t)) \in Seq(Nat)
  <2>1. \A i \in 1 .. n : t[i] \in Nat
    BY <1>1, <1>2
  <2>2. \A i \in n + 1 .. Len(t) : t[i] \in Nat
    BY <1>1, <1>2
  <2> QED BY <1>1, <2>1, <2>2, SubSeqProperties
<1>4. SubSeq(t, 1, n) \o SubSeq(t, n + 1, Len(t)) = SubSeq(t, 1, Len(t))
  <2>1. 1 \in 1 .. Len(t) + 1 /\ n \in 1 - 1 .. Len(t) /\ Len(t) \in n .. Len(t)
    BY <1>1
  <2> QED BY <2>1, ConcatAdjacentSubSeq
<1>5. SubSeq(t, 1, Len(t)) = t
  BY SubSeqFull
<1> QED BY <1>3, <1>4, <1>5

(***************************************************************************)
(* The inductive invariant.                                                *)
(***************************************************************************)

WriterTypeOK ==
    /\ queue \in Seq(Nat \cup {Stop})
    /\ batch \in Seq(Nat)
    /\ thread \in Seq(Nat)
    /\ disk \in Seq(Nat)
    /\ accepted \in Seq(Nat)
    /\ worker \in {"getting", "flushing", "stopping"} \cup Done
    /\ offered \in Nat

(* The queue holds records and, when close() has put it, _STOP behind them;*)
(* a put that waits is the one of the call that waits.                     *)
QueueInv ==
    /\ QueuedRecords \in Seq(Nat)
    /\ queue = QueuedRecords \/ (closed /\ queue = Append(QueuedRecords, Stop))
    /\ call = "write" => ~closed
    /\ put = "pending" => \/ call = "write"
                          \/ call = "stop" /\ closed /\ queue = QueuedRecords
    /\ Len(queue) <= MaxQueue

(* The thread writes the worker's batch, which never exceeds its size.     *)
BatchInv ==
    /\ worker = "getting" => thread = <<>> /\ Len(batch) < BatchSize
    /\ worker \in {"flushing", "stopping"} => thread = batch
    /\ Len(batch) <= BatchSize

(* What the thread writes comes next in the files, also when nobody waits  *)
(* for it any more.                                                        *)
DataInv ==
    /\ Conserved
    /\ \E rest \in Seq(Nat) : (disk \o thread) \o rest = accepted
    /\ Len(accepted) - Len(disk) <= BatchSize + Len(queue)

WriterInv == WriterTypeOK /\ QueueInv /\ BatchInv /\ DataInv

LEMMA QueuedIsRecords == QueuedRecords = Records(queue) /\ QueuedRecords' = Records(queue')
BY DEF QueuedRecords, Records

LEMMA InvInit == WriterInit => WriterInv
<1> SUFFICES ASSUME WriterInit PROVE WriterInv
  OBVIOUS
<1>1. <<>> \in Seq(Nat) /\ <<>> \in Seq(Nat \cup {Stop}) /\ Len(<<>>) = 0
  OBVIOUS
<1>2. QueuedRecords = <<>>
  BY DEF WriterInit, QueuedRecords
<1>3. <<>> \o <<>> = <<>>
  BY <1>1, ConcatEmptySeq
<1>4. WriterTypeOK
  BY <1>1 DEF WriterInit, WriterTypeOK
<1>5. QueueInv /\ BatchInv
  BY <1>1, <1>2, WriterAssumption DEF WriterInit, QueueInv, BatchInv
<1>6. DataInv
  <2>1. Conserved
    BY <1>2, <1>3 DEF WriterInit, Conserved
  <2>2. \E rest \in Seq(Nat) : (disk \o thread) \o rest = accepted
    BY <1>1, <1>3 DEF WriterInit
  <2>3. Len(accepted) - Len(disk) <= BatchSize + Len(queue)
    BY <1>1, WriterAssumption DEF WriterInit
  <2> QED BY <2>1, <2>2, <2>3 DEF DataInv
<1> QED BY <1>4, <1>5, <1>6 DEF WriterInv

(* Calls that return, raise or are cancelled, and a worker that ends.      *)
LEMMA QuietStep ==
    ASSUME WriterInv,
           UNCHANGED <<queue, batch, thread, disk, closed, offered, accepted>>,
           worker' = worker \/ worker' \in Done,
           \/ UNCHANGED <<call, put>>
           \/ put' = "none" /\ call' \in {"none", "join"}
    PROVE  WriterInv'
<1>1. QueuedRecords' = QueuedRecords
  BY DEF QueuedRecords
<1>2. WriterTypeOK'
  BY DEF WriterInv, WriterTypeOK
<1>3. QueueInv'
  BY <1>1 DEF WriterInv, QueueInv
<1>4. BatchInv'
  BY DEF WriterInv, BatchInv, Done
<1>5. DataInv'
  BY <1>1 DEF WriterInv, DataInv, Conserved, WorkerDone
<1> QED BY <1>2, <1>3, <1>4, <1>5 DEF WriterInv

-----------------------------------------------------------------------------

(* A put that succeeds.                                                    *)
LEMMA AcceptRecord ==
    ASSUME WriterInv, NEW item \in Nat, ~closed, ~closed', ~QueueFull, Accept(item),
           offered' \in Nat, put' # "pending",
           UNCHANGED <<batch, worker, thread, disk>>
    PROVE  WriterInv'
<1>0. /\ queue \in Seq(Nat) /\ queue = QueuedRecords
      /\ batch \in Seq(Nat) /\ thread \in Seq(Nat) /\ disk \in Seq(Nat)
      /\ accepted \in Seq(Nat)
  BY DEF WriterInv, WriterTypeOK, QueueInv
<1>1. /\ queue' = Append(queue, item) /\ accepted' = Append(accepted, item)
      /\ item # Stop
  BY WriterAssumption DEF Accept
<1>2. /\ queue' \in Seq(Nat) /\ accepted' \in Seq(Nat)
      /\ Len(queue') = Len(queue) + 1 /\ Len(accepted') = Len(accepted) + 1
  BY <1>0, <1>1, AppendProperties
<1>3. QueuedRecords' = queue' /\ queue' \in Seq(Nat \cup {Stop})
  BY <1>2, QueuedIsRecords, RecordsAlone, SeqMonotonic
<1>4. WriterTypeOK'
  BY <1>2, <1>3 DEF WriterInv, WriterTypeOK
<1>5. QueueInv'
  <2>1. Len(queue') <= MaxQueue
    BY <1>0, <1>2, WriterAssumption DEF QueueFull
  <2> QED BY <1>2, <1>3, <2>1 DEF QueueInv
<1>6. BatchInv'
  BY DEF WriterInv, BatchInv
<1>7. Conserved'
  <2> SUFFICES ASSUME ~WorkerDone PROVE (disk \o batch) \o queue' = accepted'
    BY <1>3 DEF Conserved, WorkerDone
  <2>1. disk \o batch \in Seq(Nat)
    BY <1>0, ConcatProperties
  <2>2. (disk \o batch) \o queue = accepted
    BY <1>0 DEF WriterInv, DataInv, Conserved
  <2> QED BY <1>0, <1>1, <2>1, <2>2, AppendToConcat
<1>8. \E rest \in Seq(Nat) : (disk' \o thread') \o rest = accepted'
  <2>1. PICK rest \in Seq(Nat) : (disk \o thread) \o rest = accepted
    BY DEF WriterInv, DataInv
  <2>2. disk \o thread \in Seq(Nat)
    BY <1>0, ConcatProperties
  <2>3. (disk \o thread) \o Append(rest, item) = accepted'
    BY <1>1, <2>1, <2>2, AppendToConcat
  <2>4. Append(rest, item) \in Seq(Nat)
    BY AppendProperties
  <2> QED BY <2>3, <2>4
<1>9. Len(accepted') - Len(disk') <= BatchSize + Len(queue')
  <2>1. Len(accepted) \in Nat /\ Len(disk) \in Nat /\ Len(queue) \in Nat
    BY <1>0, LenProperties
  <2> QED BY <1>2, <2>1, WriterAssumption DEF WriterInv, DataInv
<1> QED BY <1>4, <1>5, <1>6, <1>7, <1>8, <1>9 DEF WriterInv, DataInv

LEMMA AcceptStop ==
    ASSUME WriterInv, queue = QueuedRecords, closed', ~QueueFull, Accept(Stop),
           put' # "pending", call' # "write",
           UNCHANGED <<batch, worker, thread, disk, offered>>
    PROVE  WriterInv'
<1>0. /\ queue \in Seq(Nat)
      /\ accepted \in Seq(Nat) /\ disk \in Seq(Nat)
  BY DEF WriterInv, WriterTypeOK, QueueInv
<1>1. queue' = Append(queue, Stop) /\ accepted' = accepted
  BY DEF Accept
<1>2. queue \in Seq(Nat \cup {Stop})
  BY <1>0, SeqMonotonic
<1>3. queue' \in Seq(Nat \cup {Stop}) /\ Len(queue') = Len(queue) + 1
  BY <1>1, <1>2, AppendProperties
<1>4. QueuedRecords' = QueuedRecords
  BY <1>0, <1>1, QueuedIsRecords, RecordsBeforeStop
<1>5. Len(accepted) \in Nat /\ Len(disk) \in Nat /\ Len(queue) \in Nat
  BY <1>0, LenProperties
<1>6. WriterTypeOK'
  BY <1>1, <1>3 DEF WriterInv, WriterTypeOK
<1>7. QueueInv'
  <2>1. Len(queue') <= MaxQueue
    BY <1>3, <1>5, WriterAssumption DEF QueueFull
  <2> QED BY <1>0, <1>1, <1>4, <2>1 DEF QueueInv
<1>8. BatchInv'
  BY DEF WriterInv, BatchInv
<1>9. DataInv'
  <2>1. Len(accepted') - Len(disk') <= BatchSize + Len(queue')
    BY <1>1, <1>3, <1>5, WriterAssumption DEF WriterInv, DataInv
  <2> QED BY <1>1, <1>4, <2>1 DEF WriterInv, DataInv, Conserved, WorkerDone
<1> QED BY <1>6, <1>7, <1>8, <1>9 DEF WriterInv

(* A put that has to wait.                                                 *)
LEMMA WaitStep ==
    ASSUME WriterInv,
           UNCHANGED <<queue, batch, worker, thread, disk, accepted>>,
           put' = "pending", offered' \in Nat,
           \/ call' = "write" /\ ~closed /\ ~closed'
           \/ call' = "stop" /\ ~closed /\ closed'
    PROVE  WriterInv'
<1>1. QueuedRecords' = QueuedRecords
  BY DEF QueuedRecords
<1>2. WriterTypeOK'
  BY DEF WriterInv, WriterTypeOK
<1>3. QueueInv'
  BY <1>1 DEF WriterInv, QueueInv
<1>4. BatchInv'
  BY DEF WriterInv, BatchInv
<1>5. DataInv'
  BY <1>1 DEF WriterInv, DataInv, Conserved, WorkerDone
<1> QED BY <1>2, <1>3, <1>4, <1>5 DEF WriterInv

-----------------------------------------------------------------------------

(* The worker takes a record; it starts to flush or goes on collecting.    *)
LEMMA GetStep ==
    ASSUME WriterInv, WorkerGetsRecord
    PROVE  WriterInv'
<1>0. /\ worker = "getting" /\ ~WorkerDone
      /\ queue # <<>> /\ Head(queue) # Stop
      /\ queue' = Tail(queue) /\ batch' = Append(batch, Head(queue))
      /\ UNCHANGED <<disk, closed, call, put, offered, accepted>>
  BY DEF WorkerGetsRecord, WorkerDone, Done
<1>1. /\ QueuedRecords \in Seq(Nat) /\ batch \in Seq(Nat) /\ disk \in Seq(Nat)
      /\ thread = <<>> /\ Len(batch) < BatchSize /\ accepted \in Seq(Nat)
      /\ queue \in Seq(Nat \cup {Stop})
  BY <1>0 DEF WriterInv, WriterTypeOK, QueueInv, BatchInv
<1> DEFINE R == QueuedRecords
<1>2. /\ R # <<>> /\ Head(queue) = Head(R)
      /\ QueuedRecords' = Tail(R)
      /\ \/ queue' = Tail(R)
         \/ closed /\ queue # R /\ queue' = Append(Tail(R), Stop)
  <2>1. CASE queue = R
    <3>1. R # <<>> /\ Tail(R) \in Seq(Nat)
      BY <1>0, <1>1, <2>1, HeadTailProperties
    <3>2. Records(Tail(R)) = Tail(R)
      BY <3>1, RecordsAlone
    <3> QED BY <1>0, <2>1, <3>1, <3>2, QueuedIsRecords
  <2>2. CASE closed /\ queue = Append(R, Stop)
    <3>1. R \in Seq(Nat \cup {Stop})
      BY <1>1, SeqMonotonic
    <3>2. /\ Head(queue) = IF R = <<>> THEN Stop ELSE Head(R)
          /\ Tail(queue) = IF R = <<>> THEN <<>> ELSE Append(Tail(R), Stop)
      BY <3>1, <2>2, HeadTailAppend
    <3>3. R # <<>> /\ Head(queue) = Head(R) /\ queue' = Append(Tail(R), Stop)
      BY <1>0, <3>2
    <3>4. Tail(R) \in Seq(Nat)
      BY <1>1, <3>3, HeadTailProperties
    <3>5. Records(queue') = Tail(R)
      BY <3>3, <3>4, RecordsBeforeStop
    <3>6. queue # R
      <4>1. Len(queue) = Len(R) + 1 /\ Len(R) \in Nat
        BY <2>2, <3>1, AppendProperties, LenProperties
      <4> QED BY <4>1
    <3> QED BY <2>2, <3>3, <3>5, <3>6, QueuedIsRecords
  <2> QED BY <2>1, <2>2 DEF WriterInv, QueueInv
<1>3. /\ Head(R) \in Nat /\ Tail(R) \in Seq(Nat)
      /\ Append(batch, Head(R)) \o Tail(R) = batch \o R
  BY <1>1, <1>2, MoveHead
<1>4. /\ batch' = Append(batch, Head(R)) /\ batch' \in Seq(Nat)
      /\ Len(batch') = Len(batch) + 1
  BY <1>0, <1>1, <1>2, <1>3, AppendProperties
<1>5. /\ queue' \in Seq(Nat \cup {Stop}) /\ Len(queue') = Len(queue) - 1
  BY <1>0, <1>1, HeadTailProperties
<1>6. /\ Len(batch) \in Nat /\ Len(queue) \in Nat /\ Len(accepted) \in Nat
      /\ Len(disk) \in Nat /\ Len(queue') \in Nat
  BY <1>1, <1>5, LenProperties
<1>7. \/ worker' = "flushing" /\ thread' = batch'
      \/ worker' = "getting" /\ thread' = <<>> /\ Len(batch) + 1 < BatchSize
  BY <1>0, <1>1, <1>6, WriterAssumption DEF WorkerGetsRecord, StartFlush
<1>8. WriterTypeOK'
  <2>0. <<>> \in Seq(Nat)
    OBVIOUS
  <2>1. thread' \in Seq(Nat)
    BY <1>4, <1>7, <2>0
  <2>2. worker' \in {"getting", "flushing", "stopping"} \cup Done
    BY <1>7
  <2> QED BY <1>0, <1>4, <1>5, <2>1, <2>2 DEF WriterInv, WriterTypeOK
<1>9. QueueInv'
  <2>1. Len(queue') <= MaxQueue
    BY <1>5, <1>6, WriterAssumption DEF WriterInv, QueueInv
  <2> QED BY <1>0, <1>2, <1>3, <2>1 DEF WriterInv, QueueInv
<1>10. BatchInv'
  BY <1>1, <1>4, <1>6, <1>7, WriterAssumption DEF BatchInv
<1>11. /\ (disk' \o batch') \o QueuedRecords' = accepted'
       /\ disk \o batch \in Seq(Nat) /\ disk \o batch' \in Seq(Nat)
  <2>1. (disk \o batch) \o R = accepted
    BY <1>0 DEF WriterInv, DataInv, Conserved
  <2>2. (disk \o batch) \o R = disk \o (batch \o R)
    BY <1>1, Regrouped, Zenon
  <2>3. (disk \o batch') \o Tail(R) = disk \o (batch' \o Tail(R))
    <3>1. disk \in Seq(Nat) /\ batch' \in Seq(Nat) /\ Tail(R) \in Seq(Nat)
      BY <1>1, <1>3, <1>4
    <3> HIDE DEF R
    <3> QED BY <3>1, Regrouped, Zenon
  <2>4. disk \o batch \in Seq(Nat) /\ disk \o batch' \in Seq(Nat)
    BY <1>1, <1>4, ConcatProperties
  <2> QED BY <1>0, <1>2, <1>3, <1>4, <2>1, <2>2, <2>3, <2>4
<1>12. \E rest \in Seq(Nat) : (disk' \o thread') \o rest = accepted'
  <2>1. CASE thread' = batch'
    BY <1>0, <1>2, <1>3, <1>11, <2>1
  <2>2. CASE thread' = <<>>
    BY <1>0, <1>1, <2>2 DEF WriterInv, DataInv
  <2> QED BY <1>7, <2>1, <2>2
<1>13. Len(accepted') - Len(disk') <= BatchSize + Len(queue')
  <2>1. Len(accepted') = (Len(disk) + Len(batch')) + Len(QueuedRecords')
    <3>1. Len((disk \o batch') \o Tail(R)) = Len(disk \o batch') + Len(Tail(R))
      BY <1>3, <1>11, ConcatProperties
    <3>2. Len(disk \o batch') = Len(disk) + Len(batch')
      BY <1>1, <1>4, ConcatProperties
    <3> QED BY <1>0, <1>2, <1>11, <3>1, <3>2
  <2>2. Len(QueuedRecords') <= Len(queue') /\ Len(QueuedRecords') \in Nat
    <3>1. Tail(R) \in Seq(Nat \cup {Stop})
      BY <1>3, SeqMonotonic
    <3>2. Len(Append(Tail(R), Stop)) = Len(Tail(R)) + 1 /\ Len(Tail(R)) \in Nat
      BY <3>1, AppendProperties, LenProperties
    <3> QED BY <1>2, <3>2
  <2>3. Len(batch') <= BatchSize /\ Len(batch') \in Nat
    BY <1>1, <1>4, <1>6, WriterAssumption
  <2>4. /\ Len(disk) \in Nat /\ Len(queue') \in Nat
        /\ disk' = disk /\ BatchSize \in Nat
    BY <1>0, <1>6, WriterAssumption
  <2> QED BY <2>1, <2>2, <2>3, <2>4
<1>14. DataInv'
  BY <1>11, <1>12, <1>13 DEF DataInv, Conserved
<1> QED BY <1>8, <1>9, <1>10, <1>14 DEF WriterInv

(* The worker takes _STOP, behind which there is nothing.                  *)
LEMMA StopStep ==
    ASSUME WriterInv, WorkerGetsStop
    PROVE  WriterInv' /\ QueuedRecords = <<>> /\ queue' = <<>> /\ closed
<1>0. /\ worker = "getting" /\ ~WorkerDone
      /\ queue # <<>> /\ Head(queue) = Stop
      /\ queue' = Tail(queue)
      /\ UNCHANGED <<batch, disk, closed, call, put, offered, accepted>>
  BY DEF WorkerGetsStop, WorkerDone, Done
<1>1. /\ QueuedRecords \in Seq(Nat) /\ batch \in Seq(Nat) /\ disk \in Seq(Nat)
      /\ thread = <<>> /\ Len(batch) < BatchSize /\ accepted \in Seq(Nat)
  BY <1>0 DEF WriterInv, WriterTypeOK, QueueInv, BatchInv
<1> DEFINE R == QueuedRecords
<1>2. R = <<>> /\ queue' = <<>> /\ closed /\ queue # R
  <2>1. CASE queue = R
    <3>1. Head(R) \in Nat
      BY <1>0, <1>1, <2>1, HeadTailProperties
    <3> QED BY <1>0, <2>1, <3>1, WriterAssumption
  <2>2. CASE closed /\ queue = Append(R, Stop)
    <3>1. R \in Seq(Nat \cup {Stop})
      BY <1>1, SeqMonotonic
    <3>2. /\ Head(queue) = IF R = <<>> THEN Stop ELSE Head(R)
          /\ Tail(queue) = IF R = <<>> THEN <<>> ELSE Append(Tail(R), Stop)
      BY <3>1, <2>2, HeadTailAppend
    <3>3. R = <<>>
      <4>1. SUFFICES ASSUME R # <<>> PROVE FALSE
        OBVIOUS
      <4>2. Head(R) \in Nat /\ Head(R) = Stop
        BY <1>0, <1>1, <3>2, <4>1, HeadTailProperties
      <4> QED BY <4>2, WriterAssumption
    <3> QED BY <1>0, <2>2, <3>2, <3>3
  <2> QED BY <2>1, <2>2 DEF WriterInv, QueueInv
<1>3. QueuedRecords' = <<>> /\ queue' \in Seq(Nat \cup {Stop}) /\ Len(queue') = 0
  BY <1>2 DEF QueuedRecords
<1>4. \/ worker' = "stopping" /\ thread' = batch
      \/ worker' = "returned" /\ thread' = <<>>
  BY <1>1 DEF WorkerGetsStop, StartFlush
<1>5. WriterTypeOK'
  BY <1>0, <1>1, <1>3, <1>4 DEF WriterInv, WriterTypeOK, Done
<1>6. QueueInv'
  <2>1. 0 <= MaxQueue /\ <<>> \in Seq(Nat)
    BY WriterAssumption
  <2> QED BY <1>0, <1>2, <1>3, <2>1 DEF WriterInv, QueueInv
<1>7. BatchInv'
  BY <1>0, <1>1, <1>4 DEF WriterInv, BatchInv
<1>8. (disk \o batch) \o <<>> = accepted
  BY <1>0, <1>2 DEF WriterInv, DataInv, Conserved
<1>9. \E rest \in Seq(Nat) : (disk' \o thread') \o rest = accepted'
  <2>1. <<>> \in Seq(Nat)
    OBVIOUS
  <2>2. CASE thread' = batch
    BY <1>0, <1>8, <2>1, <2>2
  <2>3. CASE thread' = <<>>
    BY <1>0, <1>1, <2>3 DEF WriterInv, DataInv
  <2> QED BY <1>4, <2>2, <2>3
<1>10. Len(accepted') - Len(disk') <= BatchSize + Len(queue')
  <2>1. Len(accepted) = Len(disk) + Len(batch)
    <3>1. disk \o batch \in Seq(Nat) /\ Len(disk \o batch) = Len(disk) + Len(batch)
      BY <1>1, ConcatProperties
    <3> QED BY <1>8, <3>1, ConcatEmptySeq
  <2>2. Len(disk) \in Nat /\ Len(batch) \in Nat
    BY <1>1, LenProperties
  <2> QED BY <1>0, <1>1, <1>3, <2>1, <2>2, WriterAssumption
<1>11. Conserved'
  BY <1>0, <1>3, <1>8 DEF Conserved
<1> QED BY <1>2, <1>5, <1>6, <1>7, <1>9, <1>10, <1>11 DEF WriterInv, DataInv

(* The timer starts a flush of what there is.                              *)
LEMMA TimeoutStep ==
    ASSUME WriterInv, WorkerTimesOut
    PROVE  WriterInv'
<1>0. /\ worker = "getting" /\ ~WorkerDone
      /\ worker' = "flushing" /\ thread' = batch
      /\ UNCHANGED <<queue, batch, disk, closed, call, put, offered, accepted>>
  BY DEF WorkerTimesOut, StartFlush, WorkerDone, Done
<1>1. QueuedRecords' = QueuedRecords
  BY <1>0 DEF QueuedRecords
<1>2. WriterTypeOK'
  BY <1>0 DEF WriterInv, WriterTypeOK
<1>3. QueueInv'
  BY <1>0, <1>1 DEF WriterInv, QueueInv
<1>4. BatchInv'
  BY <1>0 DEF WriterInv, BatchInv
<1>5. (disk \o batch) \o QueuedRecords = accepted /\ QueuedRecords \in Seq(Nat)
  BY <1>0 DEF WriterInv, DataInv, Conserved, QueueInv
<1>6. DataInv'
  BY <1>0, <1>1, <1>5 DEF WriterInv, DataInv, Conserved
<1> QED BY <1>2, <1>3, <1>4, <1>6 DEF WriterInv

(* The batch, or a part of it, is in the files.                            *)
LEMMA FlushStep ==
    ASSUME WriterInv, FlushSucceeds
    PROVE  WriterInv'
<1>0. /\ disk' = disk \o thread /\ thread' = <<>>
      /\ UNCHANGED <<queue, closed, call, put, offered, accepted>>
      /\ \/ /\ worker \in {"flushing", "stopping"} /\ batch' = <<>> /\ thread = batch
            /\ worker' \in {"getting", "returned"}
         \/ WorkerDone /\ UNCHANGED <<worker, batch>>
  BY DEF FlushSucceeds, WriterInv, BatchInv
<1>1. /\ batch \in Seq(Nat) /\ disk \in Seq(Nat) /\ thread \in Seq(Nat)
      /\ accepted \in Seq(Nat) /\ QueuedRecords \in Seq(Nat)
      /\ queue \in Seq(Nat \cup {Stop})
      /\ <<>> \in Seq(Nat) /\ Len(<<>>) = 0
  BY DEF WriterInv, WriterTypeOK, QueueInv
<1>2. disk' \in Seq(Nat) /\ Len(disk') = Len(disk) + Len(thread)
  BY <1>0, <1>1, ConcatProperties
<1>3. /\ disk' \o <<>> = disk'
      /\ Len(disk) \in Nat /\ Len(thread) \in Nat /\ Len(accepted) \in Nat
      /\ Len(queue) \in Nat
  BY <1>1, <1>2, ConcatEmptySeq, LenProperties
<1>4. QueuedRecords' = QueuedRecords
  BY <1>0 DEF QueuedRecords
<1>5. WriterTypeOK'
  BY <1>0, <1>1, <1>2 DEF WriterInv, WriterTypeOK, Done
<1>6. QueueInv'
  BY <1>0, <1>4 DEF WriterInv, QueueInv
<1>7. BatchInv'
  BY <1>0, <1>1, WriterAssumption DEF WriterInv, BatchInv, WorkerDone, Done
<1>8. Conserved'
  <2>1. CASE WorkerDone /\ UNCHANGED worker
    BY <2>1 DEF Conserved, WorkerDone
  <2>2. CASE worker \in {"flushing", "stopping"} /\ batch' = <<>> /\ thread = batch
    <3>1. (disk \o batch) \o QueuedRecords = accepted
      BY <2>2 DEF WriterInv, DataInv, Conserved, WorkerDone, Done
    <3> QED BY <1>0, <1>3, <1>4, <2>2, <3>1 DEF Conserved
  <2> QED BY <1>0, <2>1, <2>2
<1>9. \E rest \in Seq(Nat) : (disk' \o thread') \o rest = accepted'
  BY <1>0, <1>3 DEF WriterInv, DataInv
<1>10. Len(accepted') - Len(disk') <= BatchSize + Len(queue')
  BY <1>0, <1>2, <1>3, WriterAssumption DEF WriterInv, DataInv
<1> QED BY <1>5, <1>6, <1>7, <1>8, <1>9, <1>10 DEF WriterInv, DataInv

LEMMA FailureStep ==
    ASSUME WriterInv, FlushFails
    PROVE  WriterInv'
<1>0. /\ thread' = <<>> /\ worker' \in Done
      /\ UNCHANGED <<queue, batch, closed, call, put, offered, accepted>>
  BY DEF FlushFails, WorkerDone, Done
<1>1. PICK n \in 0 .. (Len(thread) - 1) : disk' = disk \o SubSeq(thread, 1, n)
  BY DEF FlushFails
<1>2. /\ disk \in Seq(Nat) /\ thread \in Seq(Nat) /\ accepted \in Seq(Nat)
      /\ queue \in Seq(Nat \cup {Stop})
  BY DEF WriterInv, WriterTypeOK
<1>3. PICK left \in Seq(Nat) : /\ SubSeq(thread, 1, n) \in Seq(Nat)
                               /\ SubSeq(thread, 1, n) \o left = thread
  BY <1>2, SplitBatch
<1> DEFINE part == SubSeq(thread, 1, n)
<1>4. /\ part \in Seq(Nat) /\ left \in Seq(Nat)
      /\ part \o left = thread /\ disk' = disk \o part
  BY <1>1, <1>3
<1> HIDE DEF part
<1>5. disk' \in Seq(Nat) /\ Len(disk') = Len(disk) + Len(part)
  BY <1>2, <1>4, ConcatProperties
<1>6. \E rest \in Seq(Nat) : (disk' \o thread') \o rest = accepted'
  <2>1. PICK rest \in Seq(Nat) : (disk \o thread) \o rest = accepted
    BY DEF WriterInv, DataInv
  <2>2. disk \o thread = disk' \o left
    <3>1. disk \in Seq(Nat) /\ part \in Seq(Nat) /\ left \in Seq(Nat)
      BY <1>2, <1>4
    <3>2. (disk \o part) \o left = disk \o (part \o left)
      BY <3>1, Regrouped, Zenon
    <3> QED BY <1>4, <3>2
  <2>3. (disk' \o left) \o rest = disk' \o (left \o rest)
    BY <1>3, <1>5, Regroup
  <2>4. disk' \o thread' = disk'
    BY <1>0, <1>5, ConcatEmptySeq
  <2>5. left \o rest \in Seq(Nat)
    BY ConcatProperties
  <2> QED BY <1>0, <2>1, <2>2, <2>3, <2>4, <2>5
<1>7. Len(accepted') - Len(disk') <= BatchSize + Len(queue')
  <2>1. /\ Len(disk) \in Nat /\ Len(part) \in Nat /\ Len(accepted) \in Nat
        /\ Len(queue) \in Nat
    BY <1>2, <1>4, LenProperties
  <2> QED BY <1>0, <1>5, <2>1, WriterAssumption DEF WriterInv, DataInv
<1>8. QueuedRecords' = QueuedRecords
  BY <1>0 DEF QueuedRecords
<1>9. WriterTypeOK'
  BY <1>0, <1>5 DEF WriterInv, WriterTypeOK
<1>10. QueueInv'
  BY <1>0, <1>8 DEF WriterInv, QueueInv
<1>11. BatchInv' /\ Conserved'
  BY <1>0 DEF WriterInv, BatchInv, Conserved, WorkerDone, Done
<1> QED BY <1>6, <1>7, <1>9, <1>10, <1>11 DEF WriterInv, DataInv

-----------------------------------------------------------------------------

LEMMA InvStep ==
    ASSUME WriterInv, [WriterNext]_writerVars
    PROVE  WriterInv'
<1>1. CASE WorkerGetsRecord
  BY <1>1, GetStep
<1>2. CASE WorkerGetsStop
  BY <1>2, StopStep
<1>3. CASE WorkerTimesOut
  BY <1>3, TimeoutStep
<1>4. CASE FlushSucceeds
  BY <1>4, FlushStep
<1>5. CASE FlushFails
  BY <1>5, FailureStep
<1>6. CASE CallWrite
  <2>1. offered' = offered + 1 /\ offered' \in Nat /\ ~closed /\ ~closed'
    BY <1>6 DEF CallWrite, WriterInv, WriterTypeOK
  <2>2. CASE QueueFull
    BY <1>6, <2>1, <2>2, WaitStep DEF CallWrite, PutOrFailure
  <2>3. CASE ~QueueFull
    <3>1. put # "pending"
      BY <1>6 DEF CallWrite, WriterInv, QueueInv
    <3> QED BY <1>6, <2>1, <2>3, <3>1, AcceptRecord DEF CallWrite, PutOrFailure
  <2> QED BY <2>2, <2>3
<1>7. CASE PutLands
  <2>1. CASE call = "write"
    <3>1. offered \in Nat /\ ~closed
      BY <2>1 DEF WriterInv, WriterTypeOK, QueueInv
    <3> QED BY <1>7, <2>1, <3>1, AcceptRecord DEF PutLands
  <2>2. CASE call = "stop"
    <3>1. closed /\ queue = QueuedRecords
      BY <1>7, <2>2 DEF PutLands, WriterInv, QueueInv
    <3> QED BY <1>7, <2>2, <3>1, AcceptStop DEF PutLands
  <2> QED BY <1>7, <2>1, <2>2 DEF PutLands, WriterInv, QueueInv
<1>8. CASE CallClose
  <2>1. /\ ~closed /\ closed' /\ call = "none" /\ put # "pending"
        /\ queue = QueuedRecords
        /\ UNCHANGED <<batch, worker, thread, disk, offered>>
        /\ offered' \in Nat
    BY <1>8 DEF CallClose, WriterInv, QueueInv, WriterTypeOK
  <2>2. CASE WorkerDone
    <3>1. UNCHANGED <<queue, accepted, put, call>>
      BY <1>8, <2>2 DEF CallClose
    <3>2. QueuedRecords' = QueuedRecords
      BY <3>1 DEF QueuedRecords
    <3>3. WriterTypeOK' /\ BatchInv' /\ DataInv'
      BY <2>1, <3>1, <3>2 DEF WriterInv, WriterTypeOK, BatchInv, DataInv, Conserved, WorkerDone
    <3>4. QueueInv'
      BY <2>1, <3>1, <3>2 DEF WriterInv, QueueInv
    <3> QED BY <3>3, <3>4 DEF WriterInv
  <2>3. CASE ~WorkerDone /\ QueueFull
    BY <1>8, <2>1, <2>3, WaitStep DEF CallClose, PutOrFailure
  <2>4. CASE ~WorkerDone /\ ~QueueFull
    BY <1>8, <2>1, <2>4, AcceptStop DEF CallClose, PutOrFailure
  <2> QED BY <2>2, <2>3, <2>4
<1>9. CASE WriteReturns \/ WriteRaises \/ StopLanded \/ CloseEnds
  BY <1>9, QuietStep DEF WriteReturns, WriteRaises, StopLanded, CloseEnds, LeavePut
<1>10. CASE CancelClient
  BY <1>10, QuietStep DEF CancelClient, LeavePut, Done
<1>11. CASE CancelWorker
  BY <1>11, QuietStep DEF CancelWorker, Done
<1>12. CASE UNCHANGED writerVars
  BY <1>12, QuietStep DEF writerVars
<1> QED
  BY <1>1, <1>2, <1>3, <1>4, <1>5, <1>6, <1>7, <1>8, <1>9, <1>10, <1>11, <1>12
     DEF WriterNext, Worker, Client

LEMMA InvIsOrder == WriterInv => RecordsKeepOrder
<1> SUFFICES ASSUME WriterInv PROVE DiskIsPrefix
  BY DEF RecordsKeepOrder, WriterInv, DataInv
<1>1. disk \in Seq(Nat) /\ thread \in Seq(Nat)
  BY DEF WriterInv, WriterTypeOK
<1>2. PICK rest \in Seq(Nat) : (disk \o thread) \o rest = accepted
  BY DEF WriterInv, DataInv
<1>3. disk \o (thread \o rest) = accepted /\ thread \o rest \in Seq(Nat)
  BY <1>1, <1>2, Regroup
<1> QED BY <1>1, <1>3, ConcatIsPrefix DEF DiskIsPrefix

LEMMA InvIsBounded == WriterInv => AtRiskBounded
<1> SUFFICES ASSUME WriterInv PROVE Len(accepted) - Len(disk) <= MaxQueue + BatchSize
  BY DEF AtRiskBounded
<1>1. Len(accepted) \in Nat /\ Len(disk) \in Nat /\ Len(queue) \in Nat
  BY LenProperties DEF WriterInv, WriterTypeOK
<1> QED BY <1>1, WriterAssumption DEF WriterInv, DataInv, QueueInv

-----------------------------------------------------------------------------
(***************************************************************************)
(* One connection and its writer: what is on the disk when the connection  *)
(* is over, and whether a cancellation is obeyed.                          *)
(***************************************************************************)

(* Every step of the session is a step of the writer or leaves it alone.   *)
LEMMA SessionIsWriter ==
    ASSUME [SessionNext]_allVars
    PROVE  [WriterNext]_writerVars
BY DEF SessionNext, ConnectionCloses, HeartbeatBreaks, Receive, WriterBroken,
       StreamEnds, AwaitHeartbeat, WriterClosed, WriterGoesOn, Cancel,
       ProcessExit, WriterNext, Worker, Client, allVars, writerVars

LEMMA WriterInvHolds == SessionSpec => []WriterInv
<1>1. SessionInit => WriterInv
  BY InvInit DEF SessionInit
<1>2. WriterInv /\ [SessionNext]_allVars => WriterInv'
  BY SessionIsWriter, InvStep
<1> QED BY <1>1, <1>2, PTL DEF SessionSpec

(* RecordsKeepOrder: on its way from write() to the files no record is     *)
(* lost, doubled or overtaken while the worker lives, and the files hold a *)
(* prefix of what was accepted whatever ended it.                          *)
THEOREM WriterKeepsOrder == SessionSpec => []RecordsKeepOrder
BY WriterInvHolds, InvIsOrder, PTL

(* AtRiskBounded: what is accepted and not yet in the files fits in the    *)
(* queue and one batch.                                                    *)
THEOREM AtRiskStaysBounded == SessionSpec => []AtRiskBounded
BY WriterInvHolds, InvIsBounded, PTL

-----------------------------------------------------------------------------

(* A worker that has taken _STOP took it from a closed writer, behind the  *)
(* last record; when it returns everything accepted is in the files.       *)
StopInv ==
    /\ call \in {"stop", "join"} => closed
    /\ worker \in {"stopping", "returned"} => closed /\ put # "pending"
    /\ worker = "stopping" => queue = <<>>
    /\ worker = "returned" => thread = <<>> /\ disk = accepted

(* The session and the writer: the writer is closed by the cleanup alone;  *)
(* without a late cancellation or a broken heartbeat the session waits for *)
(* the worker, which nobody cancels; and the exception that propagates is  *)
(* the cancellation, if there was one.                                     *)
SessionInv ==
    /\ session \in {"reading", "cleanup"} => ~closed
    /\ session = "reading" => cancels = 0
    /\ outcome # "none" => session = "over"
    /\ worker = "cancelled" => late \/ heartbeat = "broken"
    /\ session = "over" /\ heartbeat # "broken" /\ ~late => WorkerDone
    /\ session \in {"cleanup", "closing"} /\ cancels > 0 /\ ~late =>
          raising = "cancelled"
    /\ CancelStops

(* What a step of the writer may do to the worker and to the calls.        *)
LEMMA WriterMoves ==
    ASSUME StopInv, [WriterNext]_writerVars
    PROVE  /\ WorkerDone => worker' = worker
           /\ call' \in {"stop", "join"} => closed'
           /\ closed' # closed => CallClose
           /\ worker' = "cancelled" =>
                 worker = "cancelled" \/ CancelWorker \/ CancelClient
<1> USE DEF StopInv, WorkerDone, Done
<1>1. CASE WorkerGetsRecord
  BY <1>1 DEF WorkerGetsRecord, StartFlush
<1>2. CASE WorkerGetsStop
  BY <1>2 DEF WorkerGetsStop, StartFlush
<1>3. CASE WorkerTimesOut
  BY <1>3 DEF WorkerTimesOut, StartFlush
<1>4. CASE FlushSucceeds
  BY <1>4 DEF FlushSucceeds
<1>5. CASE FlushFails
  BY <1>5 DEF FlushFails
<1>6. CASE CallWrite
  BY <1>6 DEF CallWrite, PutOrFailure
<1>7. CASE PutLands
  BY <1>7 DEF PutLands
<1>8. CASE CallClose
  BY <1>8 DEF CallClose
<1>9. CASE WriteReturns \/ WriteRaises \/ StopLanded \/ CloseEnds
  BY <1>9 DEF WriteReturns, WriteRaises, StopLanded, CloseEnds, LeavePut
<1>10. CASE CancelClient
  BY <1>10 DEF CancelClient, LeavePut
<1>11. CASE CancelWorker
  BY <1>11 DEF CancelWorker
<1>12. CASE UNCHANGED writerVars
  BY <1>12 DEF writerVars
<1> QED
  BY <1>1, <1>2, <1>3, <1>4, <1>5, <1>6, <1>7, <1>8, <1>9, <1>10, <1>11, <1>12
     DEF WriterNext, Worker, Client

LEMMA StopStepKeeps ==
    ASSUME WriterInv, StopInv, [WriterNext]_writerVars
    PROVE  StopInv'
<1>0. call' \in {"stop", "join"} => closed'
  BY WriterMoves
<1>1. CASE WorkerGetsRecord
  <2>1. worker' \in {"getting", "flushing"}
    BY <1>1 DEF WorkerGetsRecord, StartFlush
  <2> QED BY <1>0, <2>1 DEF StopInv
<1>2. CASE WorkerGetsStop
  <2>1. QueuedRecords = <<>> /\ queue' = <<>> /\ closed
    BY <1>2, StopStep
  <2>2. /\ worker = "getting" /\ ~WorkerDone /\ queue # <<>>
        /\ UNCHANGED <<batch, disk, closed, call, put, accepted>>
    BY <1>2 DEF WorkerGetsStop, WorkerDone, Done
  <2>3. put # "pending"
    BY <2>1, <2>2 DEF WriterInv, QueueInv
  <2>4. worker' = "returned" => thread' = <<>> /\ disk' = accepted'
    <3>1. SUFFICES ASSUME worker' = "returned" PROVE thread' = <<>> /\ disk' = accepted'
      OBVIOUS
    <3>2. batch = <<>> /\ thread' = thread
      BY <1>2, <3>1 DEF WorkerGetsStop, StartFlush
    <3>3. thread = <<>> /\ disk \in Seq(Nat) /\ (disk \o <<>>) \o <<>> = accepted
      BY <2>1, <2>2, <3>2 DEF WriterInv, BatchInv, DataInv, Conserved, WriterTypeOK
    <3>4. (disk \o <<>>) \o <<>> = disk
      BY <3>3, ConcatEmptySeq
    <3> QED BY <2>2, <3>2, <3>3, <3>4
  <2> QED BY <1>0, <2>1, <2>2, <2>3, <2>4 DEF StopInv
<1>3. CASE WorkerTimesOut
  BY <1>0, <1>3 DEF WorkerTimesOut, StartFlush, StopInv
<1>4. CASE FlushSucceeds
  <2>1. CASE WorkerDone
    <3>1. worker # "returned"
      BY <1>4, <2>1 DEF FlushSucceeds, StopInv
    <3>2. worker' = worker /\ worker # "stopping"
      BY <1>4, <2>1 DEF FlushSucceeds, WorkerDone, Done
    <3> QED BY <1>0, <3>1, <3>2 DEF StopInv
  <2>2. CASE worker = "flushing"
    <3>1. worker' = "getting"
      BY <1>4, <2>2 DEF FlushSucceeds, WorkerDone, Done
    <3> QED BY <1>0, <3>1 DEF StopInv
  <2>3. CASE worker = "stopping"
    <3>1. /\ worker' = "returned" /\ thread' = <<>> /\ disk' = disk \o thread
          /\ UNCHANGED <<queue, closed, call, put, accepted>>
      BY <1>4, <2>3 DEF FlushSucceeds, WorkerDone, Done
    <3>2. /\ closed /\ put # "pending" /\ queue = <<>> /\ thread = batch
          /\ disk \in Seq(Nat) /\ batch \in Seq(Nat)
      BY <2>3 DEF StopInv, WriterInv, BatchInv, WriterTypeOK
    <3>3. QueuedRecords = <<>>
      BY <3>2 DEF QueuedRecords
    <3>4. (disk \o batch) \o <<>> = accepted
      BY <2>3, <3>3 DEF WriterInv, DataInv, Conserved, WorkerDone, Done
    <3>5. disk \o batch \in Seq(Nat)
      BY <3>2, ConcatProperties
    <3>6. disk' = accepted'
      BY <3>1, <3>2, <3>4, <3>5, ConcatEmptySeq
    <3> QED BY <1>0, <3>1, <3>2, <3>6 DEF StopInv
  <2> QED BY <1>4, <2>1, <2>2, <2>3 DEF FlushSucceeds
<1>5. CASE FlushFails
  <2>1. worker # "returned"
    BY <1>5 DEF FlushFails, StopInv
  <2>2. worker' \in {"failed", "cancelled"}
    BY <1>5, <2>1 DEF FlushFails, WorkerDone, Done
  <2> QED BY <1>0, <2>2 DEF StopInv
<1>6. CASE CallWrite
  <2>1. worker' = worker /\ worker \notin {"stopping", "returned"}
    BY <1>6 DEF CallWrite, StopInv
  <2> QED BY <1>0, <2>1 DEF StopInv
<1>7. CASE PutLands
  <2>1. worker' = worker /\ worker \notin {"stopping", "returned"}
    BY <1>7 DEF PutLands, StopInv
  <2> QED BY <1>0, <2>1 DEF StopInv
<1>8. CASE CallClose
  <2>1. worker' = worker /\ worker \notin {"stopping", "returned"}
    BY <1>8 DEF CallClose, StopInv
  <2> QED BY <1>0, <2>1 DEF StopInv
<1>9. CASE WriteReturns \/ WriteRaises \/ StopLanded \/ CloseEnds \/ CancelClient
           \/ CancelWorker \/ UNCHANGED writerVars
  <2>1. /\ UNCHANGED <<queue, thread, disk, closed, accepted>>
        /\ worker' = worker \/ worker' = "cancelled"
        /\ put' = put \/ put' = "none"
    BY <1>9 DEF WriteReturns, WriteRaises, StopLanded, CloseEnds, CancelClient,
                CancelWorker, LeavePut, writerVars
  <2> QED BY <1>0, <2>1 DEF StopInv
<1> QED
  BY <1>1, <1>2, <1>3, <1>4, <1>5, <1>6, <1>7, <1>8, <1>9
     DEF WriterNext, Worker, Client

-----------------------------------------------------------------------------

LEMMA SessionStepKeeps ==
    ASSUME StopInv, SessionInv, [SessionNext]_allVars
    PROVE  SessionInv'
<1> USE DEF SessionInv, CancelStops
<1>0. /\ WorkerDone => worker' = worker
      /\ closed' # closed => CallClose
      /\ worker' = "cancelled" => worker = "cancelled" \/ CancelWorker \/ CancelClient
      /\ WorkerDone <=> worker \in Done
      /\ WorkerDone' <=> worker' \in Done
  BY SessionIsWriter, WriterMoves DEF WorkerDone
(* Steps of the writer that neither close nor cancel it.                   *)
<1>1. ASSUME UNCHANGED <<sessionVars, closed>>,
             worker' = "cancelled" => worker = "cancelled"
      PROVE  SessionInv'
  BY <1>0, <1>1 DEF sessionVars, Done
<1>2. CASE Receive
  BY <1>1, <1>2 DEF Receive, CallWrite
<1>3. CASE WriterGoesOn
  <2>1. UNCHANGED closed
    BY <1>3 DEF WriterGoesOn, Worker, WorkerGetsRecord, WorkerGetsStop, WorkerTimesOut,
                FlushSucceeds, FlushFails, PutLands, WriteReturns, StopLanded, LeavePut
  <2>2. worker' = "cancelled" => worker = "cancelled"
    BY <1>3 DEF WriterGoesOn, Worker, WorkerGetsRecord, WorkerGetsStop, WorkerTimesOut,
                FlushSucceeds, FlushFails, PutLands, WriteReturns, StopLanded, StartFlush
  <2> QED BY <1>1, <1>3, <2>1, <2>2 DEF WriterGoesOn
<1>4. CASE ConnectionCloses \/ HeartbeatBreaks
  BY <1>4 DEF ConnectionCloses, HeartbeatBreaks, writerVars, WorkerDone
<1>5. CASE WriterBroken
  <2>1. UNCHANGED <<worker, closed>>
    BY <1>5 DEF WriterBroken, WriteRaises, LeavePut, writerVars
  <2> QED BY <1>5, <2>1 DEF WriterBroken, LeaveLoop
<1>6. CASE StreamEnds
  BY <1>6 DEF StreamEnds, LeaveLoop, writerVars
<1>7. CASE AwaitHeartbeat
  <2>1. CASE heartbeat = "broken"
    BY <1>7, <2>1 DEF AwaitHeartbeat, SessionOver, writerVars
  <2>2. CASE heartbeat = "beating"
    <3>1. /\ session = "cleanup" /\ session' = "closing" /\ worker' = worker
          /\ UNCHANGED <<raising, outcome, cancels, late>>
      BY <1>7, <2>2 DEF AwaitHeartbeat, CallClose
    <3> QED BY <2>2, <3>1
  <2> QED BY <1>7, <2>1, <2>2 DEF AwaitHeartbeat
<1>8. CASE WriterClosed
  <2>1. /\ UNCHANGED <<worker, heartbeat, cancels, late>> /\ WorkerDone
        /\ session = "closing" /\ session' = "over"
        /\ outcome' = IF (IF worker = "failed" THEN "error" ELSE raising) = "cancelled"
                        THEN "stop" ELSE "reconnect"
    BY <1>8 DEF WriterClosed, CloseEnds, LeavePut, SessionOver, writerVars
  <2> QED BY <1>0, <2>1
<1>9. CASE Cancel
  <2>1. CASE session = "reading"
    <3>1. /\ session' = "cleanup" /\ raising' = "cancelled"
          /\ UNCHANGED <<heartbeat, outcome, closed>>
          /\ late' = (late \/ session # "reading")
      BY <1>9, <2>1 DEF Cancel, LeaveLoop, CancelClient, LeavePut, writerVars
    <3>2. worker' = worker
      <4>1. call # "join"
        BY <2>1 DEF StopInv
      <4> QED BY <1>9, <2>1, <4>1 DEF Cancel, CancelClient, writerVars
    <3> QED BY <1>0, <2>1, <3>1, <3>2
  <2>2. CASE session = "cleanup"
    <3>1. /\ UNCHANGED <<session, heartbeat, raising, outcome, closed, worker>>
          /\ late' = TRUE
      BY <1>9, <2>2 DEF Cancel, LeaveLoop, writerVars
    <3> QED BY <1>0, <2>2, <3>1
  <2>3. CASE session = "closing"
    <3>1. session' = "over" /\ late' = TRUE
      BY <1>9, <2>3 DEF Cancel, LeaveLoop, SessionOver
    <3> QED BY <3>1
  <2> QED BY <1>9, <2>1, <2>2, <2>3 DEF Cancel, LeaveLoop
<1>10. CASE ProcessExit
  <2>1. session = "over" /\ ~WorkerDone
    BY <1>10 DEF ProcessExit, CancelWorker
  <2>2. late \/ heartbeat = "broken"
    BY <2>1
  <2>3. UNCHANGED <<sessionVars, closed>>
    BY <1>10 DEF ProcessExit, CancelWorker
  <2> QED BY <1>0, <2>1, <2>2, <2>3 DEF sessionVars
<1>11. CASE UNCHANGED allVars
  BY <1>1, <1>11 DEF allVars, writerVars
<1> QED
  BY <1>2, <1>3, <1>4, <1>5, <1>6, <1>7, <1>8, <1>9, <1>10, <1>11 DEF SessionNext

LEMMA CollectorInvHolds == SessionSpec => [](StopInv /\ SessionInv)
<1>1. SessionInit => StopInv /\ SessionInv
  BY DEF SessionInit, WriterInit, StopInv, SessionInv, CancelStops, WorkerDone, Done
<1>2. WriterInv /\ StopInv /\ SessionInv /\ [SessionNext]_allVars => (StopInv /\ SessionInv)'
  BY SessionIsWriter, StopStepKeeps, SessionStepKeeps
<1> QED BY <1>1, <1>2, WriterInvHolds, PTL DEF SessionSpec

(* SessionDrains: when a connection is over, everything accepted is in the *)
(* files, unless the disk failed, the heartbeat's exception skipped the    *)
(* drain, or a cancellation arrived during the cleanup.                    *)
THEOREM SessionEndsDrained == SessionSpec => []SessionDrains
<1>1. StopInv /\ SessionInv => SessionDrains
  BY DEF StopInv, SessionInv, SessionDrains, WorkerDone, Done
<1> QED BY <1>1, CollectorInvHolds, PTL

(* CancelStops: a collector that was cancelled while it read does not      *)
(* connect again, with the same three exceptions.                          *)
THEOREM CancelledIsOver == SessionSpec => []CancelStops
<1>1. SessionInv => CancelStops
  BY DEF SessionInv
<1> QED BY <1>1, CollectorInvHolds, PTL

-----------------------------------------------------------------------------
(***************************************************************************)
(* The watchdog.                                                           *)
(***************************************************************************)

(* Every step keeps the types.                                             *)
LEMMA TypesStep ==
    ASSUME WatchdogTypeOK, [Next]_vars
    PROVE  WatchdogTypeOK'
<1> USE WatchdogAssumption DEF WatchdogTypeOK, outside, run, history
<1>0. /\ OldFile \in Nat /\ OldCall \in Nat /\ 0 \in 0 .. OldFile /\ 0 \in 0 .. OldCall
      /\ RunTime <= OldCall /\ RunTime \in Nat
      /\ 0 \in 0 .. RunTime /\ 0 \in 0 .. Period /\ MaxFaults \in Nat
  BY DEF OldFile, OldCall
<1>f. \A kind \in {"none", "empty", "rows"}, age \in 0 .. OldFile :
         [kind |-> kind, age |-> age] \in Files
  BY DEF Files
<1>s. \A kind \in {"absent", "torn", "time"}, age \in 0 .. OldCall :
         [kind |-> kind, age |-> age] \in Stamps
  BY DEF Stamps
<1>o. \A midnight \in BOOLEAN : Opened(newest, midnight) \in [Markets -> Files]
  BY <1>0, <1>f DEF Opened
<1>g. ASSUME NEW place \in {"inactive", "inspect", "check", "decide", "stamp", "call"},
             Goto(place)
      PROVE  /\ pc' \in {"inactive", "inspect", "check", "decide", "stamp", "call"}
             /\ now' \in 0 .. RunTime /\ idle' \in 0 .. Period /\ healthy' \in BOOLEAN
  BY <1>g DEF Goto
<1>r. ASSUME NEW isHealthy \in BOOLEAN, Return(isHealthy)
      PROVE  /\ pc' \in {"inactive", "inspect", "check", "decide", "stamp", "call"}
             /\ now' \in 0 .. RunTime /\ idle' \in 0 .. Period /\ healthy' \in BOOLEAN
             /\ running' \in BOOLEAN
  BY <1>0, <1>r DEF Return
<1>1. ASSUME NEW m \in Markets, WriteRows(m) PROVE WatchdogTypeOK'
  BY <1>0, <1>1, <1>f DEF WriteRows
<1>2. CASE Midnight
  BY <1>2, <1>o DEF Midnight
<1>3. CASE RecorderFails
  BY <1>3 DEF RecorderFails
<1>4. CASE Start
  BY <1>4, <1>g DEF Start, Inside
<1>5. CASE Inspect
  BY <1>5, <1>g DEF Inspect, Inside
<1>6. CASE CheckHealthy
  BY <1>6, <1>r DEF CheckHealthy, Inside
<1>7. CASE CheckUnhealthy
  BY <1>7, <1>r, <1>g DEF CheckUnhealthy, Inside
<1>8. CASE Suppress
  BY <1>8, <1>r DEF Suppress, Inside
<1>9. CASE OpenStamp
  BY <1>0, <1>9, <1>g, <1>s DEF OpenStamp, Inside
<1>10. CASE WriteStamp
  <2>1. now \in 0 .. OldCall
    BY <1>0
  <2> QED BY <2>1, <1>10, <1>g, <1>s DEF WriteStamp, Inside
<1>11. CASE RestartWorks
  BY <1>0, <1>11, <1>r, <1>o DEF RestartWorks
<1>12. CASE RestartFails
  BY <1>0, <1>12, <1>r DEF RestartFails
<1>13. CASE RunBreaks
  <2>1. faults' \in 0 .. MaxFaults
    BY <1>0, <1>13 DEF RunBreaks
  <2>2. Return(FALSE) /\ FALSE \in BOOLEAN
    BY <1>13 DEF RunBreaks
  <2> QED BY <2>1, <2>2, <1>13, <1>r DEF RunBreaks, Inside
<1>14. CASE Tick
  <2>1. \A age \in 0 .. OldFile : Older(age, OldFile) \in 0 .. OldFile
    BY <1>0 DEF Older
  <2>2. \A age \in 0 .. OldCall : Older(age, OldCall) \in 0 .. OldCall
    BY <1>0 DEF Older
  <2>3. newest' \in [Markets -> Files]
    BY <1>14, <2>1 DEF Tick, Files
  <2>4. stamp' \in Stamps
    BY <1>14, <2>2 DEF Tick, Stamps
  <2>5. now' \in 0 .. RunTime /\ idle' \in 0 .. Period
    BY <1>14, <1>0 DEF Tick
  <2>6. rowAge' \in [Markets -> 0 .. OldFile] /\ called' \in 0 .. OldCall
    BY <1>14, <2>1, <2>2 DEF Tick
  <2> QED BY <1>14, <2>3, <2>4, <2>5, <2>6 DEF Tick
<1>15. CASE UNCHANGED vars
  BY <1>15 DEF vars
<1> QED
  BY <1>1, <1>2, <1>3, <1>4, <1>5, <1>6, <1>7, <1>8, <1>9, <1>10, <1>11, <1>12,
     <1>13, <1>14, <1>15 DEF Next, Step

(* WatchdogTypeOK: the state stays within its types.                       *)
THEOREM WatchdogTypes == Spec => []WatchdogTypeOK
<1>1. Init => WatchdogTypeOK
  <2> SUFFICES ASSUME Init PROVE WatchdogTypeOK
    OBVIOUS
  <2>0. /\ OldFile \in Nat /\ OldCall \in Nat
        /\ {RunTime, Period, MaxFaults} \subseteq Nat
    BY WatchdogAssumption DEF OldFile, OldCall
  <2>1. newest \in [Markets -> Files]
    BY <2>0 DEF Init, Files
  <2>2. stamp \in Stamps
    BY <2>0 DEF Init, Stamps
  <2>3. rowAge \in [Markets -> 0 .. OldFile] /\ called \in 0 .. OldCall
    BY <2>0 DEF Init
  <2>4. now \in 0 .. RunTime /\ idle \in 0 .. Period /\ faults \in 0 .. MaxFaults
    BY <2>0 DEF Init
  <2> QED BY <2>1, <2>2, <2>3, <2>4 DEF Init, WatchdogTypeOK
<1>2. WatchdogTypeOK /\ [Next]_vars => WatchdogTypeOK'
  BY TypesStep
<1> QED BY <1>1, <1>2, PTL DEF Spec

-----------------------------------------------------------------------------

(* Why the cooldown holds although the stamp and the call are two steps:   *)
(* a stamp is never younger than the call it stands for by more than a     *)
(* run, a run that has passed the cooldown check has an old enough last    *)
(* call, and there is no call without a stamp before it.                   *)
SpacingInv ==
    /\ stamp.kind = "absent" => called = OldCall
    /\ stamp.kind = "time" => called >= stamp.age - RunTime
    /\ pc \in {"stamp", "call"} => called >= Cooldown - RunTime
    /\ pc = "call" => stamp.kind = "time" /\ stamp.age = now

LEMMA SpacingStep ==
    ASSUME WatchdogTypeOK, SpacingInv, [Next]_vars
    PROVE  SpacingInv'
<1>0. /\ RunTime \in Nat /\ Cooldown \in Nat
      /\ OldCall = Cooldown + RunTime + 1
      /\ now \in Nat /\ now <= RunTime
      /\ called \in Nat /\ called <= OldCall
      /\ stamp.age \in Nat /\ stamp.age <= OldCall
      /\ stamp \in Stamps
  BY WatchdogAssumption DEF WatchdogTypeOK, Stamps, OldCall
<1>1. ASSUME UNCHANGED <<stamp, called>>,
             \/ UNCHANGED <<pc, now>>
             \/ pc' \notin {"stamp", "call"}
      PROVE  SpacingInv'
  BY <1>1 DEF SpacingInv
<1>2. ASSUME NEW m \in Markets, WriteRows(m) PROVE SpacingInv'
  BY <1>1, <1>2 DEF WriteRows, run
<1>3. CASE Midnight
  BY <1>1, <1>3 DEF Midnight, run
<1>4. CASE RecorderFails
  BY <1>1, <1>4 DEF RecorderFails, run
<1>5. CASE Start \/ Inspect
  BY <1>1, <1>5 DEF Start, Inspect, Goto, Inside
<1>6. CASE CheckHealthy \/ CheckUnhealthy
  BY <1>1, <1>6 DEF CheckHealthy, CheckUnhealthy, Goto, Return, Inside
<1>7. CASE Suppress \/ RunBreaks
  BY <1>1, <1>7 DEF Suppress, RunBreaks, Return, Inside
<1>8. CASE OpenStamp
  <2>1. pc' = "stamp" /\ called' = called /\ stamp'.kind = "torn"
    BY <1>8 DEF OpenStamp, Goto, Inside
  <2>2. called >= Cooldown - RunTime
    <3>1. stamp.kind \in {"absent", "time"}
      BY <1>0, <1>8 DEF OpenStamp, Stamps
    <3>2. CASE stamp.kind = "absent"
      BY <1>0, <3>2 DEF SpacingInv
    <3>3. CASE stamp.kind = "time"
      <4>1. stamp.age - now >= Cooldown /\ called >= stamp.age - RunTime
        BY <1>0, <1>8, <3>3 DEF OpenStamp, CoolingDown, SpacingInv
      <4> QED BY <1>0, <4>1
    <3> QED BY <3>1, <3>2, <3>3
  <2> QED BY <2>1, <2>2 DEF SpacingInv
<1>9. CASE WriteStamp
  <2>1. /\ pc = "stamp" /\ pc' = "call" /\ called' = called /\ now' = now
        /\ stamp'.kind = "time" /\ stamp'.age = now
    BY <1>9 DEF WriteStamp, Goto, Inside
  <2>2. called >= Cooldown - RunTime /\ called >= now - RunTime
    BY <1>0, <2>1 DEF SpacingInv
  <2> QED BY <2>1, <2>2 DEF SpacingInv
<1>10. CASE RestartWorks \/ RestartFails
  <2>1. pc = "call" /\ pc' = "inactive" /\ called' = 0 /\ stamp' = stamp
    BY <1>10 DEF RestartWorks, RestartFails, Return
  <2>2. stamp.kind = "time" /\ stamp.age <= RunTime
    BY <1>0, <2>1 DEF SpacingInv
  <2>3. 0 >= stamp.age - RunTime
    BY <1>0, <2>2
  <2> QED BY <2>1, <2>2, <2>3 DEF SpacingInv
<1>11. CASE Tick
  <2>1. /\ pc' = pc
        /\ called' = Older(called, OldCall)
        /\ stamp'.kind = stamp.kind
        /\ stamp.kind = "time" => stamp'.age = Older(stamp.age, OldCall)
        /\ pc # "inactive" => now' = now + 1 /\ now < RunTime
    BY <1>0, <1>11 DEF Tick, Stamps
  <2>2. called' = IF called < OldCall THEN called + 1 ELSE OldCall
    BY <2>1 DEF Older
  <2>3. stamp.kind = "absent" => called' = OldCall
    BY <1>0, <2>2 DEF SpacingInv
  <2>4. stamp.kind = "time" => called' >= stamp'.age - RunTime
    BY <1>0, <2>1, <2>2 DEF SpacingInv, Older
  <2>5. pc \in {"stamp", "call"} => called' >= Cooldown - RunTime
    BY <1>0, <2>2 DEF SpacingInv
  <2>6. pc = "call" => stamp'.age = now'
    BY <1>0, <2>1 DEF SpacingInv, Older
  <2> QED BY <2>1, <2>3, <2>4, <2>5, <2>6 DEF SpacingInv
<1>12. CASE UNCHANGED vars
  BY <1>1, <1>12 DEF vars, run, history
<1> QED
  BY <1>2, <1>3, <1>4, <1>5, <1>6, <1>7, <1>8, <1>9, <1>10, <1>11, <1>12
     DEF Next, Step

(* RestartsSpaced: whatever is killed or fails in between, two calls of    *)
(* docker restart are a cooldown apart, less the length of one run.        *)
THEOREM CooldownHolds == Spec => RestartsSpaced
<1>1. Init => SpacingInv
  BY DEF Init, SpacingInv
<1>2. WatchdogTypeOK /\ SpacingInv /\ [Next]_vars => SpacingInv'
  BY SpacingStep
<1>3. SpacingInv /\ [Next]_vars
        => [pc = "call" /\ called' = 0 => called >= Cooldown - RunTime]_vars
  BY DEF SpacingInv
<1> QED BY <1>1, <1>2, <1>3, WatchdogTypes, PTL DEF Spec, RestartsSpaced

-----------------------------------------------------------------------------

(* A file with rows is no younger than its last row, whatever is opened or *)
(* replaced in between.                                                    *)
RowsInv ==
    /\ \A m \in Markets : newest[m].kind = "rows" => rowAge[m] <= newest[m].age
    /\ HealthyMeansRecorded

LEMMA RowsStep ==
    ASSUME WatchdogTypeOK, RowsInv, [Next]_vars
    PROVE  RowsInv'
<1>0. /\ RunTime \in Nat /\ MaxAge \in Nat /\ OldFile \in Nat
      /\ now \in Nat /\ now <= RunTime
      /\ newest \in [Markets -> Files]
      /\ rowAge \in [Markets -> 0 .. OldFile]
      /\ \A m \in Markets : newest[m].age \in Nat /\ rowAge[m] \in Nat
                            /\ newest[m].age <= OldFile
  BY WatchdogAssumption DEF WatchdogTypeOK, Files, OldFile
<1>1. ASSUME UNCHANGED <<newest, rowAge>>, UNCHANGED healthy \/ healthy' = FALSE
      PROVE  RowsInv'
  BY <1>1 DEF RowsInv, HealthyMeansRecorded
<1>2. ASSUME NEW midnight \in BOOLEAN, newest' = Opened(newest, midnight),
             rowAge' = rowAge, healthy' = FALSE
      PROVE  RowsInv'
  BY <1>0, <1>2 DEF RowsInv, HealthyMeansRecorded, Opened
<1>3. ASSUME NEW m \in Markets, WriteRows(m) PROVE RowsInv'
  <2>1. ASSUME NEW k \in Markets, newest'[k].kind = "rows"
        PROVE  rowAge'[k] <= newest'[k].age
    BY <1>0, <1>3, <2>1 DEF WriteRows, RowsInv
  <2> QED BY <1>3, <2>1 DEF WriteRows, RowsInv, HealthyMeansRecorded
<1>4. CASE Midnight
  BY <1>2, <1>4 DEF Midnight
<1>5. CASE RecorderFails
  BY <1>1, <1>5 DEF RecorderFails
<1>6. CASE Start \/ Inspect \/ CheckUnhealthy
  BY <1>1, <1>6 DEF Start, Inspect, CheckUnhealthy, Goto, Return, Inside, outside
<1>7. CASE CheckHealthy
  <2>1. UNCHANGED <<newest, rowAge>>
    BY <1>7 DEF CheckHealthy, Inside, outside
  <2>2. ASSUME NEW m \in Markets PROVE rowAge[m] <= MaxAge + RunTime
    <3>1. newest[m].kind = "rows" /\ AgeAtNow(newest[m].age) <= MaxAge
      BY <1>7 DEF CheckHealthy, MarketOK
    <3>2. newest[m].age <= MaxAge + RunTime
      BY <1>0, <3>1 DEF AgeAtNow
    <3>3. rowAge[m] <= newest[m].age
      BY <3>1 DEF RowsInv
    <3> QED BY <1>0, <3>2, <3>3
  <2> QED BY <2>1, <2>2 DEF RowsInv, HealthyMeansRecorded
<1>8. CASE Suppress \/ OpenStamp \/ WriteStamp \/ RunBreaks
  BY <1>1, <1>8 DEF Suppress, OpenStamp, WriteStamp, RunBreaks, Goto, Return,
                    Inside, outside
<1>9. CASE RestartWorks
  BY <1>2, <1>9 DEF RestartWorks, Return
<1>10. CASE RestartFails
  BY <1>1, <1>10 DEF RestartFails, Return
<1>11. CASE Tick
  <2>1. ASSUME NEW m \in Markets, newest'[m].kind = "rows"
        PROVE  rowAge'[m] <= newest'[m].age
    <3>1. newest[m].kind = "rows" /\ newest'[m].age = Older(newest[m].age, OldFile)
      BY <1>0, <1>11, <2>1 DEF Tick, Files
    <3>2. rowAge'[m] = Older(rowAge[m], OldFile)
      BY <1>11 DEF Tick
    <3> QED BY <1>0, <3>1, <3>2 DEF RowsInv, Older
  <2> QED BY <1>11, <2>1 DEF Tick, RowsInv, HealthyMeansRecorded
<1>12. CASE UNCHANGED vars
  BY <1>1, <1>12 DEF vars, outside, history
<1> QED
  BY <1>3, <1>4, <1>5, <1>6, <1>7, <1>8, <1>9, <1>10, <1>11, <1>12 DEF Next, Step

(* HealthyMeansRecorded: status 0 is never said on the strength of a file  *)
(* without rows or of rows older than the limit plus one run.              *)
THEOREM HealthyIsRecorded == Spec => []HealthyMeansRecorded
<1>1. Init => RowsInv
  BY DEF Init, RowsInv, HealthyMeansRecorded
<1>2. WatchdogTypeOK /\ RowsInv /\ [Next]_vars => RowsInv'
  BY RowsStep
<1>3. RowsInv => HealthyMeansRecorded
  BY DEF RowsInv
<1> QED BY <1>1, <1>2, <1>3, WatchdogTypes, PTL DEF Spec

-----------------------------------------------------------------------------
(***************************************************************************)
(* The Hummingbot recorder: what is in its files, what it still holds and  *)
(* what a kill cost account for every row it ever captured.                *)
(***************************************************************************)

Rows == [key : Int, local : Int]

LEMMA TwoStreams == Stream = {"books", "trades"} /\ DOMAIN Streams = 1 .. 2
BY DEF Stream, Streams, ToSet

RecorderTypes ==
    /\ clock \in Nat /\ uid \in Nat /\ lastUid \in Nat
    /\ lastDump \in Int /\ failures \in Nat
    /\ held \in [Stream -> Seq(Rows)]
    /\ buffered \in [Stream -> Seq(Rows)]
    /\ files \in [Stream -> Seq(Rows)]
    /\ kills \in SUBSET Nat
    /\ captured \in [Stream -> SUBSET Rows]

Lost(row, killed, fail) ==
    \E k \in killed : /\ row.local <= k
                      /\ fail = 0 => row.local > k - DumpEvery - 1

(* Of one stream: h is held, b buffered, f in the files, c ever captured.  *)
(* While no dump failed, what is held is no older than the last dump.      *)
Stored(h, b, f, c, time, dump, fail, killed) ==
    /\ b \subseteq h /\ h \subseteq c /\ f \subseteq c
    /\ \A row \in c : /\ row.key >= 1 /\ row.key <= time /\ row.local <= time
                      /\ row \in f \/ row \in h \/ Lost(row, killed, fail)
    /\ fail = 0 => \A row \in h : /\ dump - DumpEvery <= row.local
                                  /\ dump < time => time <= row.local

RecorderInv ==
    /\ RecorderTypes
    /\ uid <= clock
    /\ lastDump <= clock + DumpEvery
    /\ \A s \in Stream :
          Stored(ToSet(held[s]), ToSet(buffered[s]), ToSet(files[s]), captured[s],
                 clock, lastDump, failures, kills)

LEMMA RecorderBounds == DumpEvery \in Nat /\ MaxTime \in Nat /\ Late \subseteq Nat
BY RecorderAssumption

LEMMA RowsIn ==
    ASSUME NEW X, NEW s \in Seq(X)
    PROVE  ToSet(s) \subseteq X /\ ToSet(<<>>) = {}
<1>1. \A i \in DOMAIN s : s[i] \in X
  OBVIOUS
<1> QED BY <1>1 DEF ToSet

LEMMA RowsAppended ==
    ASSUME NEW X, NEW s \in Seq(X), NEW x \in X
    PROVE  Append(s, x) \in Seq(X) /\ ToSet(Append(s, x)) = ToSet(s) \union {x}
<1>1. /\ Append(s, x) \in Seq(X) /\ Len(s) \in Nat /\ Len(Append(s, x)) = Len(s) + 1
      /\ \A i \in 1 .. Len(s) : Append(s, x)[i] = s[i]
      /\ Append(s, x)[Len(s) + 1] = x
  OBVIOUS
<1>2. DOMAIN s = 1 .. Len(s) /\ DOMAIN Append(s, x) = 1 .. Len(s) + 1
  BY <1>1
<1>3. 1 .. Len(s) + 1 = (1 .. Len(s)) \union {Len(s) + 1}
  BY <1>1
<1> HIDE DEF ToSet
<1> QED BY <1>1, <1>2, <1>3 DEF ToSet

LEMMA RowsJoined ==
    ASSUME NEW X, NEW s \in Seq(X), NEW t \in Seq(X)
    PROVE  s \o t \in Seq(X) /\ ToSet(s \o t) = ToSet(s) \union ToSet(t)
<1>1. /\ s \o t \in Seq(X) /\ Len(s) \in Nat /\ Len(t) \in Nat /\ Len(s \o t) = Len(s) + Len(t)
      /\ \A i \in 1 .. Len(s) : (s \o t)[i] = s[i]
      /\ DOMAIN s = 1 .. Len(s) /\ DOMAIN t = 1 .. Len(t)
      /\ DOMAIN (s \o t) = 1 .. Len(s) + Len(t)
  OBVIOUS
<1>2. \A i \in 1 .. Len(t) : (s \o t)[Len(s) + i] = t[i] /\ Len(s) + i \in 1 .. Len(s) + Len(t)
  BY <1>1
<1>3. ToSet(s) \union ToSet(t) \subseteq ToSet(s \o t)
  <2>1. \A i \in 1 .. Len(s) : i \in 1 .. Len(s) + Len(t)
    BY <1>1
  <2> QED BY <1>1, <1>2, <2>1 DEF ToSet
<1>4. ToSet(s \o t) \subseteq ToSet(s) \union ToSet(t)
  <2>1. \A i \in 1 .. Len(s) + Len(t) : i \in 1 .. Len(s) \/ i - Len(s) \in 1 .. Len(t)
    BY <1>1
  <2>2. \A i \in 1 .. Len(s) + Len(t) :
           i - Len(s) \in 1 .. Len(t) => (s \o t)[i] = t[i - Len(s)]
    BY <1>1
  <2> QED BY <1>1, <2>1, <2>2 DEF ToSet
<1> QED BY <1>1, <1>3, <1>4

LEMMA RowsJoinedTwice ==
    ASSUME NEW X, NEW s \in Seq(X), NEW t \in Seq(X), NEW u \in Seq(X)
    PROVE  /\ s \o t \o u \in Seq(X)
           /\ ToSet(s \o t \o u) = (ToSet(s) \union ToSet(t)) \union ToSet(u)
<1>1. /\ s \o t \in Seq(X) /\ ToSet(s \o t) = ToSet(s) \union ToSet(t)
      /\ t \o u \in Seq(X) /\ ToSet(t \o u) = ToSet(t) \union ToSet(u)
  BY RowsJoined
<1> DEFINE st == s \o t
           tu == t \o u
<1>2. st \in Seq(X) /\ tu \in Seq(X)
  BY <1>1
<1> HIDE DEF st, tu
<1>3. /\ st \o u \in Seq(X) /\ ToSet(st \o u) = ToSet(st) \union ToSet(u)
      /\ s \o tu \in Seq(X) /\ ToSet(s \o tu) = ToSet(s) \union ToSet(tu)
  BY <1>2, RowsJoined
<1> QED BY <1>1, <1>3 DEF st, tu

LEMMA RowsSplit ==
    ASSUME NEW X, NEW s \in Seq(X), NEW n \in 0 .. Len(s)
    PROVE  /\ SubSeq(s, 1, n) \in Seq(X) /\ SubSeq(s, n + 1, Len(s)) \in Seq(X)
           /\ ToSet(SubSeq(s, 1, n)) \union ToSet(SubSeq(s, n + 1, Len(s))) = ToSet(s)
<1> DEFINE a == SubSeq(s, 1, n)
           b == SubSeq(s, n + 1, Len(s))
<1>1. /\ a \in Seq(X) /\ b \in Seq(X) /\ Len(s) \in Nat /\ Len(a) = n /\ Len(b) = Len(s) - n
      /\ \A i \in 1 .. n : a[i] = s[i]
      /\ \A i \in 1 .. Len(s) - n : b[i] = s[n + i]
  <2>1. n <= Len(s) /\ n \in Nat /\ Len(s) \in Nat
    OBVIOUS
  <2> QED BY <2>1, SubSeqProperties
<1>2. DOMAIN s = 1 .. Len(s) /\ DOMAIN a = 1 .. n /\ DOMAIN b = 1 .. Len(s) - n
  BY <1>1
<1>3. \A i \in 1 .. Len(s) : i \in 1 .. n \/ (i - n \in 1 .. Len(s) - n /\ n + (i - n) = i)
  BY <1>1
<1>4. /\ \A i \in 1 .. n : i \in 1 .. Len(s)
      /\ \A i \in 1 .. Len(s) - n : n + i \in 1 .. Len(s)
  BY <1>1
<1> HIDE DEF a, b
<1>5. ToSet(a) \union ToSet(b) = ToSet(s)
  <2>1. ToSet(a) \union ToSet(b) \subseteq ToSet(s)
    <3>1. ASSUME NEW i \in 1 .. n PROVE a[i] \in ToSet(s)
      <4>1. a[i] = s[i] /\ i \in 1 .. Len(s)
        BY <1>1, <1>4
      <4> QED BY <4>1, <1>2 DEF ToSet
    <3>2. ASSUME NEW i \in 1 .. Len(s) - n PROVE b[i] \in ToSet(s)
      <4>1. b[i] = s[n + i] /\ n + i \in 1 .. Len(s)
        BY <1>1, <1>4
      <4> QED BY <4>1, <1>2 DEF ToSet
    <3> QED BY <3>1, <3>2, <1>2 DEF ToSet
  <2>2. ASSUME NEW i \in 1 .. Len(s) PROVE s[i] \in ToSet(a) \union ToSet(b)
    <3>1. CASE i \in 1 .. n
      BY <3>1, <1>1, <1>2 DEF ToSet
    <3>2. CASE i - n \in 1 .. Len(s) - n /\ n + (i - n) = i
      <4>1. b[i - n] = s[i]
        BY <3>2, <1>1
      <4> QED BY <3>2, <4>1, <1>2 DEF ToSet
    <3> QED BY <3>1, <3>2, <1>3
  <2>3. ToSet(s) \subseteq ToSet(a) \union ToSet(b)
    BY <2>2, <1>2 DEF ToSet
  <2> QED BY <2>1, <2>3
<1> QED BY <1>1, <1>5 DEF a, b

LEMMA RecorderInitHolds == RecorderInit => RecorderInv
<1> SUFFICES ASSUME RecorderInit PROVE RecorderInv
  OBVIOUS
<1> USE RecorderBounds
<1>1. /\ clock = 0 /\ uid = 0 /\ lastUid = 0 /\ lastDump = 0 /\ failures = 0 /\ kills = {}
      /\ held = Empty /\ buffered = Empty /\ files = Empty /\ captured = [s \in Stream |-> {}]
  BY DEF RecorderInit, None
<1>2. Empty \in [Stream -> Seq(Rows)] /\ \A s \in Stream : ToSet(Empty[s]) = {}
  <2>1. <<>> \in Seq(Rows)
    OBVIOUS
  <2> QED BY <2>1, RowsIn DEF Empty
<1>3. Stored({}, {}, {}, {}, 0, 0, 0, {})
  BY DEF Stored
<1>4. ASSUME NEW s \in Stream
      PROVE  Stored(ToSet(held[s]), ToSet(buffered[s]), ToSet(files[s]), captured[s],
                    clock, lastDump, failures, kills)
  <2>1. /\ ToSet(held[s]) = {} /\ ToSet(buffered[s]) = {} /\ ToSet(files[s]) = {}
        /\ captured[s] = {}
    BY <1>1, <1>2
  <2> QED BY <2>1, <1>1, <1>3
<1>5. RecorderTypes
  <2>1. captured \in [Stream -> SUBSET Rows]
    BY <1>1
  <2> QED BY <2>1, <1>1, <1>2 DEF RecorderTypes
<1> QED BY <1>1, <1>4, <1>5 DEF RecorderInv

(* Held and captured before and after the book of a tick was looked at.    *)
Ticked(h, c, h1, c1, time) ==
    /\ h \subseteq h1 /\ c \subseteq Rows /\ c1 \subseteq Rows /\ c1 = c \union h1
    /\ \A row \in h1 : row \in h
                       \/ (row.key >= 1 /\ row.key <= time + 1 /\ row.local = time + 1)

(* Only rows of the storage are dumped, and what is not in the files       *)
(* afterwards is still held.                                               *)
Dumped(h1, c1, f, h2, b2, f2) ==
    /\ b2 \subseteq h2 /\ h2 \subseteq h1
    /\ f \subseteq f2 /\ f2 \subseteq c1 /\ h1 \subseteq f2 \union h2

(* Without a failed dump, what a tick leaves held waits for the next dump. *)
OnTime(h2, time, dump, fail, dump2, fail2) ==
    fail2 = 0 => /\ fail = 0
                 /\ h2 = {} \/ (dump2 = dump /\ dump > time /\ dump <= time + DumpEvery)

(* A tick: what is held then is h1, c1 all that was captured.  Rows may    *)
(* leave the storage for the files, and a dump may fail.                   *)
LEMMA TickKeeps ==
    ASSUME NEW time \in Nat, NEW dump \in Int, NEW fail \in Nat, NEW killed \in SUBSET Nat,
           NEW h, NEW b, NEW f, NEW c,
           Stored(h, b, f, c, time, dump, fail, killed),
           NEW c1, NEW h1, Ticked(h, c, h1, c1, time),
           NEW h2, NEW b2, NEW f2, Dumped(h1, c1, f, h2, b2, f2),
           NEW dump2 \in Int, NEW fail2 \in Nat, OnTime(h2, time, dump, fail, dump2, fail2)
    PROVE  Stored(h2, b2, f2, c1, time + 1, dump2, fail2, killed)
<1> USE DEF Ticked, Dumped, OnTime
<1> USE RecorderBounds
<1>1. \A row \in c1 : row.key \in Int /\ row.local \in Int
  BY DEF Rows
<1>2. ASSUME NEW row \in c1
      PROVE  /\ row.key >= 1 /\ row.key <= time + 1 /\ row.local <= time + 1
             /\ row \in f2 \/ row \in h2 \/ Lost(row, killed, fail2)
  <2>1. CASE row \in c
    <3>1. row.key >= 1 /\ row.key <= time + 1 /\ row.local <= time + 1
      BY <2>1, <1>1 DEF Stored
    <3>2. row \in f \/ row \in h \/ Lost(row, killed, fail)
      BY <2>1 DEF Stored
    <3>3. Lost(row, killed, fail) => Lost(row, killed, fail2)
      BY DEF Lost
    <3> QED BY <3>1, <3>2, <3>3
  <2>2. CASE row \notin c
    <3>1. row \in h1 /\ row \notin h
      BY <2>2 DEF Stored
    <3> QED BY <3>1, <1>1
  <2> QED BY <2>1, <2>2
<1>3. ASSUME fail2 = 0, NEW row \in h2
      PROVE  dump2 - DumpEvery <= row.local /\ (dump2 < time + 1 => time + 1 <= row.local)
  <2>1. dump2 = dump /\ dump > time /\ dump <= time + DumpEvery /\ fail = 0 /\ row \in c1
    BY <1>3
  <2>2. CASE row \in h
    BY <2>1, <2>2, <1>1 DEF Stored
  <2>3. CASE row \notin h
    BY <2>1, <2>3, <1>1
  <2> QED BY <2>2, <2>3
<1> QED BY <1>2, <1>3 DEF Stored

(* The storage and the history of a tick that sees snapshot newUid.        *)
HeldNow(newUid) == HeldAfter(newUid, clock + 1)
StorageNow(newUid) == [held EXCEPT !["books"] = HeldNow(newUid)]
CapturedNow(newUid, s) == captured[s] \union ToSet(StorageNow(newUid)[s])

LEMMA TickCaptures ==
    ASSUME RecorderInv, NEW newUid \in Nat, newUid <= clock + 1, NEW s \in Stream
    PROVE  /\ StorageNow(newUid) \in [Stream -> Seq(Rows)]
           /\ Ticked(ToSet(held[s]), captured[s], ToSet(StorageNow(newUid)[s]),
                     CapturedNow(newUid, s), clock)
<1> DEFINE row == [key |-> newUid, local |-> clock + 1]
           rows == HeldNow(newUid)
<1>1. /\ held \in [Stream -> Seq(Rows)] /\ "books" \in Stream /\ clock \in Nat
      /\ held[s] \in Seq(Rows) /\ held["books"] \in Seq(Rows) /\ captured[s] \subseteq Rows
  BY TwoStreams DEF RecorderInv, RecorderTypes
<1>2. row \in Rows
  BY <1>1 DEF Rows
<1>3. /\ rows \in Seq(Rows)
      /\ ToSet(held["books"]) \subseteq ToSet(rows)
      /\ \A r \in ToSet(rows) : r \in ToSet(held["books"]) \/ (newUid # 0 /\ r = row)
  <2>1. CASE newUid \in {None, lastUid}
    BY <1>1, <2>1 DEF HeldNow, HeldAfter
  <2>2. CASE newUid \notin {None, lastUid}
    <3>1. rows = Append(held["books"], row) /\ newUid # 0
      BY <2>2 DEF HeldNow, HeldAfter, None
    <3> HIDE DEF row, rows
    <3>2. Append(held["books"], row) \in Seq(Rows)
          /\ ToSet(Append(held["books"], row)) = ToSet(held["books"]) \union {row}
      BY <1>1, <1>2, RowsAppended
    <3> QED BY <3>1, <3>2
  <2> QED BY <2>1, <2>2
<1> HIDE DEF rows
<1>4. StorageNow(newUid) = [held EXCEPT !["books"] = rows]
  BY DEF StorageNow, rows
<1>5. StorageNow(newUid) \in [Stream -> Seq(Rows)]
  BY <1>1, <1>3, <1>4
<1>6. StorageNow(newUid)[s] = IF s = "books" THEN rows ELSE held[s]
  BY <1>1, <1>4
<1>7. ToSet(StorageNow(newUid)[s]) \subseteq Rows
  BY <1>5, RowsIn
<1>8. row.key = newUid /\ row.local = clock + 1
  OBVIOUS
<1> HIDE DEF row
<1>9. \A r \in ToSet(rows) : r \in ToSet(held["books"])
          \/ (r.key >= 1 /\ r.key <= clock + 1 /\ r.local = clock + 1)
  <2>1. newUid # 0 => row.key >= 1 /\ row.key <= clock + 1 /\ row.local = clock + 1
    BY <1>1, <1>8
  <2> QED BY <2>1, <1>3
<1>10. /\ ToSet(held[s]) \subseteq ToSet(StorageNow(newUid)[s])
       /\ \A r \in ToSet(StorageNow(newUid)[s]) : r \in ToSet(held[s])
             \/ (r.key >= 1 /\ r.key <= clock + 1 /\ r.local = clock + 1)
  BY <1>3, <1>6, <1>9
<1> QED BY <1>1, <1>5, <1>7, <1>10 DEF CapturedNow, Ticked

LEMMA DumpSucceedsKeeps ==
    ASSUME RecorderInv, NEW newUid \in Nat, newUid <= clock + 1, clock' = clock + 1,
           DumpSucceeds(StorageNow(newUid), clock + 1), NEW s \in Stream
    PROVE  /\ lastDump' = clock + 1 + DumpEvery /\ failures' = failures
           /\ held' \in [Stream -> Seq(Rows)] /\ buffered' \in [Stream -> Seq(Rows)]
           /\ files' \in [Stream -> Seq(Rows)]
           /\ Stored(ToSet(held'[s]), ToSet(buffered'[s]), ToSet(files'[s]),
                     CapturedNow(newUid, s), clock + 1, lastDump', failures', kills)
<1> DEFINE storage == StorageNow(newUid)
<1>0. RecorderTypes
  BY DEF RecorderInv
<1>1. storage \in [Stream -> Seq(Rows)]
  BY TickCaptures
<1> HIDE DEF storage
<1>2. /\ files' = [t \in Stream |-> files[t] \o buffered[t] \o storage[t]]
      /\ buffered' = Empty /\ held' = Empty
      /\ lastDump' = clock + 1 + DumpEvery /\ failures' = failures
  BY DEF DumpSucceeds, storage
<1>3. Empty \in [Stream -> Seq(Rows)] /\ ToSet(Empty[s]) = {}
  <2>1. <<>> \in Seq(Rows)
    OBVIOUS
  <2> QED BY <2>1, RowsIn DEF Empty
<1>4. \A t \in Stream :
         /\ files[t] \o buffered[t] \o storage[t] \in Seq(Rows)
         /\ ToSet(files[t] \o buffered[t] \o storage[t])
               = (ToSet(files[t]) \union ToSet(buffered[t])) \union ToSet(storage[t])
  <2>1. \A t \in Stream :
           files[t] \in Seq(Rows) /\ buffered[t] \in Seq(Rows) /\ storage[t] \in Seq(Rows)
    BY <1>0, <1>1 DEF RecorderTypes
  <2> QED BY <2>1, RowsJoinedTwice
<1>5. /\ clock \in Nat /\ lastDump \in Int /\ failures \in Nat /\ kills \in SUBSET Nat
      /\ captured[s] \subseteq Rows /\ lastDump' \in Int /\ DumpEvery \in Nat
  BY <1>0, <1>2, RecorderBounds DEF RecorderTypes
<1>6. Stored(ToSet(held[s]), ToSet(buffered[s]), ToSet(files[s]), captured[s],
             clock, lastDump, failures, kills)
  BY DEF RecorderInv
<1>7. Ticked(ToSet(held[s]), captured[s], ToSet(storage[s]), CapturedNow(newUid, s), clock)
  BY TickCaptures DEF storage
<1> DEFINE f2 == (ToSet(files[s]) \union ToSet(buffered[s])) \union ToSet(storage[s])
           d2 == clock + 1 + DumpEvery
<1>8. Dumped(ToSet(storage[s]), CapturedNow(newUid, s), ToSet(files[s]), {}, {}, f2)
  BY <1>6, <1>7 DEF Stored, Ticked, Dumped
<1>9. Stored({}, {}, f2, CapturedNow(newUid, s), clock + 1, d2, failures, kills)
  <2>1. d2 \in Int /\ OnTime({}, clock, lastDump, failures, d2, failures)
    BY <1>5 DEF OnTime
  <2> HIDE DEF d2, f2
  <2> QED BY <1>5, <1>6, <1>7, <1>8, <2>1, TickKeeps
<1>10. ToSet(files'[s]) = f2 /\ files' \in [Stream -> Seq(Rows)]
  BY <1>2, <1>4
<1>11. lastDump' = d2
  BY <1>2
<1> HIDE DEF f2, d2
<1> QED BY <1>2, <1>3, <1>9, <1>10, <1>11

LEMMA DumpFailsKeeps ==
    ASSUME RecorderInv, NEW newUid \in Nat, newUid <= clock + 1, clock' = clock + 1,
           DumpFails(StorageNow(newUid), clock + 1), NEW s \in Stream
    PROVE  /\ lastDump' = lastDump /\ failures' = failures + 1
           /\ held' \in [Stream -> Seq(Rows)] /\ buffered' \in [Stream -> Seq(Rows)]
           /\ files' \in [Stream -> Seq(Rows)]
           /\ Stored(ToSet(held'[s]), ToSet(buffered'[s]), ToSet(files'[s]),
                     CapturedNow(newUid, s), clock + 1, lastDump', failures', kills)
<1> DEFINE storage == StorageNow(newUid)
<1>0. RecorderTypes
  BY DEF RecorderInv
<1>1. storage \in [Stream -> Seq(Rows)]
  BY TickCaptures
<1> HIDE DEF storage
<1>2. lastDump' = lastDump /\ failures' = failures + 1
  BY DEF DumpFails
<1>3. PICK n \in DOMAIN Streams :
        LET rows == buffered[Streams[n]] \o storage[Streams[n]]
            done == {Streams[i] : i \in 1 .. n - 1}
        IN /\ held' = [t \in Stream |-> IF t \in done THEN <<>> ELSE storage[t]]
           /\ \E written \in 0 .. Len(rows) - 1 :
                 /\ buffered' = [t \in Stream |->
                        CASE t \in done -> <<>>
                          [] t = Streams[n] -> SubSeq(rows, written + 1, Len(rows))
                          [] OTHER -> buffered[t]]
                 /\ files' = [t \in Stream |->
                        CASE t \in done -> files[t] \o buffered[t] \o storage[t]
                          [] t = Streams[n] -> files[t] \o SubSeq(rows, 1, written)
                          [] OTHER -> files[t]]
  BY DEF DumpFails, storage
<1> DEFINE at == Streams[n]
           rows == buffered[at] \o storage[at]
           done == {Streams[i] : i \in 1 .. n - 1}
<1>4. PICK written \in 0 .. Len(rows) - 1 :
         /\ buffered' = [t \in Stream |->
                CASE t \in done -> <<>>
                  [] t = at -> SubSeq(rows, written + 1, Len(rows))
                  [] OTHER -> buffered[t]]
         /\ files' = [t \in Stream |->
                CASE t \in done -> files[t] \o buffered[t] \o storage[t]
                  [] t = at -> files[t] \o SubSeq(rows, 1, written)
                  [] OTHER -> files[t]]
  BY <1>3
<1>5. held' = [t \in Stream |-> IF t \in done THEN <<>> ELSE storage[t]]
  BY <1>3
<1>6. at \in Stream /\ at \notin done
  <2>1. n \in {1, 2} /\ Streams[1] # Streams[2]
    BY DEF Streams
  <2> QED BY <2>1 DEF Stream, ToSet
<1>7. \A t \in Stream :
         files[t] \in Seq(Rows) /\ buffered[t] \in Seq(Rows) /\ storage[t] \in Seq(Rows)
  BY <1>0, <1>1 DEF RecorderTypes
<1>8. \A t \in Stream :
         /\ files[t] \o buffered[t] \o storage[t] \in Seq(Rows)
         /\ ToSet(files[t] \o buffered[t] \o storage[t])
               = (ToSet(files[t]) \union ToSet(buffered[t])) \union ToSet(storage[t])
  BY <1>7, RowsJoinedTwice
<1>9. rows \in Seq(Rows) /\ ToSet(rows) = ToSet(buffered[at]) \union ToSet(storage[at])
      /\ written \in 0 .. Len(rows)
  <2>1. rows \in Seq(Rows) /\ ToSet(rows) = ToSet(buffered[at]) \union ToSet(storage[at])
    BY <1>6, <1>7, RowsJoined
  <2> HIDE DEF rows
  <2>2. Len(rows) \in Nat
    BY <2>1
  <2>3. written \in 0 .. Len(rows)
    BY <2>2
  <2> QED BY <2>1, <2>3
<1> DEFINE out == SubSeq(rows, 1, written)
           left == SubSeq(rows, written + 1, Len(rows))
<1>10. /\ out \in Seq(Rows) /\ left \in Seq(Rows)
       /\ ToSet(out) \union ToSet(left) = ToSet(buffered[at]) \union ToSet(storage[at])
  <2> HIDE DEF rows
  <2>1. out \in Seq(Rows) /\ left \in Seq(Rows) /\ ToSet(out) \union ToSet(left) = ToSet(rows)
    BY <1>9, RowsSplit
  <2> QED BY <2>1, <1>9
<1>11. /\ files[at] \o out \in Seq(Rows)
       /\ ToSet(files[at] \o out) = ToSet(files[at]) \union ToSet(out)
  <2> HIDE DEF out
  <2> QED BY <1>6, <1>7, <1>10, RowsJoined
<1> HIDE DEF rows, done, at, out, left
<1>12. <<>> \in Seq(Rows) /\ ToSet(<<>>) = {}
  <2>1. <<>> \in Seq(Rows)
    OBVIOUS
  <2> QED BY <2>1, RowsIn
<1>13. /\ held' \in [Stream -> Seq(Rows)] /\ buffered' \in [Stream -> Seq(Rows)]
       /\ files' \in [Stream -> Seq(Rows)]
  <2>1. buffered' = [t \in Stream |->
           IF t \in done THEN <<>> ELSE IF t = at THEN left ELSE buffered[t]]
    BY <1>4, <1>6 DEF left
  <2>2. files' = [t \in Stream |->
           IF t \in done THEN files[t] \o buffered[t] \o storage[t]
           ELSE IF t = at THEN files[at] \o out ELSE files[t]]
    BY <1>4, <1>6 DEF out
  <2> QED BY <2>1, <2>2, <1>5, <1>7, <1>8, <1>10, <1>11, <1>12
<1>14. /\ clock \in Nat /\ lastDump \in Int /\ failures \in Nat /\ kills \in SUBSET Nat
       /\ captured[s] \subseteq Rows /\ failures + 1 \in Nat /\ failures + 1 # 0
  BY <1>0 DEF RecorderTypes
<1>15. Stored(ToSet(held[s]), ToSet(buffered[s]), ToSet(files[s]), captured[s],
              clock, lastDump, failures, kills)
  BY DEF RecorderInv
<1>16. Ticked(ToSet(held[s]), captured[s], ToSet(storage[s]), CapturedNow(newUid, s), clock)
  BY TickCaptures DEF storage
<1> DEFINE h == ToSet(held[s])
           b == ToSet(buffered[s])
           f == ToSet(files[s])
           c1 == CapturedNow(newUid, s)
           h1 == ToSet(storage[s])
           h2 == ToSet(held'[s])
           b2 == ToSet(buffered'[s])
           f2 == ToSet(files'[s])
<1>17. b \subseteq h /\ h \subseteq h1 /\ f \subseteq c1 /\ h1 \subseteq c1
  BY <1>15, <1>16 DEF Stored, Ticked
<1>18. /\ b2 \subseteq h2 /\ h2 \subseteq h1 /\ f \subseteq f2 /\ f2 \subseteq c1
       /\ h1 \subseteq f2 \union h2
  <2>1. CASE s \in done
    <3>1. held'[s] = <<>> /\ buffered'[s] = <<>> /\ files'[s] = files[s] \o buffered[s] \o storage[s]
      BY <2>1, <1>4, <1>5, <1>6
    <3>2. h2 = {} /\ b2 = {} /\ f2 = (f \union b) \union h1
      BY <3>1, <1>8, <1>12
    <3> QED BY <3>2, <1>17
  <2>2. CASE s \notin done /\ s = at
    <3>1. held'[s] = storage[s] /\ buffered'[s] = left /\ files'[s] = files[at] \o out
      BY <2>2, <1>4, <1>5 DEF left, out
    <3>2. h2 = h1 /\ b2 = ToSet(left) /\ f2 = f \union ToSet(out)
      BY <2>2, <3>1, <1>11
    <3>3. ToSet(left) \subseteq b \union h1 /\ ToSet(out) \subseteq b \union h1
      BY <2>2, <1>10
    <3> HIDE DEF h, b, f, c1, h1, h2, b2, f2
    <3> QED BY <3>2, <3>3, <1>17
  <2>3. CASE s \notin done /\ s # at
    <3>1. held'[s] = storage[s] /\ buffered'[s] = buffered[s] /\ files'[s] = files[s]
      BY <2>3, <1>4, <1>5
    <3>2. h2 = h1 /\ b2 = b /\ f2 = f
      BY <3>1
    <3> HIDE DEF h, b, f, c1, h1, h2, b2, f2
    <3> QED BY <3>2, <1>17
  <2> QED BY <2>1, <2>2, <2>3
<1>19. Stored(h2, b2, f2, c1, clock + 1, lastDump, failures + 1, kills)
  <2> DEFINE fail2 == failures + 1
  <2>1. fail2 \in Nat /\ OnTime(h2, clock, lastDump, failures, lastDump, fail2)
    BY <1>14 DEF OnTime
  <2>2. Dumped(h1, c1, f, h2, b2, f2)
    BY <1>18 DEF Dumped
  <2>3. Ticked(h, captured[s], h1, c1, clock)
        /\ Stored(h, b, f, captured[s], clock, lastDump, failures, kills)
    BY <1>15, <1>16
  <2> HIDE DEF h, b, f, c1, h1, h2, b2, f2, fail2
  <2>4. Stored(h2, b2, f2, c1, clock + 1, lastDump, fail2, kills)
    BY <1>14, <2>1, <2>2, <2>3, TickKeeps
  <2> QED BY <2>4 DEF fail2
<1> QED BY <1>2, <1>13, <1>19

LEMMA OnTickHolds ==
    ASSUME RecorderInv, OnTick
    PROVE  RecorderInv'
<1>0. RecorderTypes /\ uid <= clock /\ lastDump <= clock + DumpEvery
  BY DEF RecorderInv
<1>1. /\ clock \in Nat /\ uid \in Nat /\ lastDump \in Int /\ failures \in Nat /\ kills \in SUBSET Nat
      /\ held \in [Stream -> Seq(Rows)] /\ buffered \in [Stream -> Seq(Rows)]
      /\ files \in [Stream -> Seq(Rows)] /\ captured \in [Stream -> SUBSET Rows]
  BY <1>0 DEF RecorderTypes
<1>2. PICK newUid \in {uid} \union {u \in {clock + 1 - d : d \in Late} : u > 0} :
         /\ uid' = newUid /\ lastUid' = newUid
         /\ captured' = [captured EXCEPT !["books"] = @ \union ToSet(HeldNow(newUid))]
         /\ IF lastDump < clock + 1
            THEN \/ DumpSucceeds(StorageNow(newUid), clock + 1)
                 \/ DumpFails(StorageNow(newUid), clock + 1)
            ELSE /\ held' = StorageNow(newUid)
                 /\ UNCHANGED <<buffered, files, lastDump, failures>>
  BY DEF OnTick, HeldNow, StorageNow
<1>3. clock' = clock + 1 /\ kills' = kills
  BY DEF OnTick
<1>4. newUid \in Nat /\ newUid <= clock + 1
  <2>1. \A d \in Late : clock + 1 - d \in Int /\ clock + 1 - d <= clock + 1
    BY <1>1, RecorderBounds
  <2> QED BY <1>0, <1>1, <2>1
<1>5. ASSUME NEW s \in Stream
      PROVE  Stored(ToSet(held[s]), ToSet(buffered[s]), ToSet(files[s]), captured[s],
                    clock, lastDump, failures, kills)
  BY DEF RecorderInv
<1>6. ASSUME NEW s \in Stream PROVE captured'[s] = CapturedNow(newUid, s)
  <2>1. CASE s = "books"
    <3>1. StorageNow(newUid)[s] = HeldNow(newUid)
      BY <2>1, <1>1 DEF StorageNow
    <3> QED BY <3>1, <2>1, <1>1, <1>2 DEF CapturedNow
  <2>2. CASE s # "books"
    <3>1. StorageNow(newUid)[s] = held[s] /\ captured'[s] = captured[s]
      BY <2>2, <1>1, <1>2 DEF StorageNow
    <3>2. ToSet(held[s]) \subseteq captured[s]
      BY <1>5 DEF Stored
    <3> QED BY <3>1, <3>2 DEF CapturedNow
  <2> QED BY <2>1, <2>2
<1>7. ASSUME NEW s \in Stream
      PROVE  /\ StorageNow(newUid) \in [Stream -> Seq(Rows)]
             /\ Ticked(ToSet(held[s]), captured[s], ToSet(StorageNow(newUid)[s]),
                       CapturedNow(newUid, s), clock)
  BY <1>4, TickCaptures
<1>8. captured' \in [Stream -> SUBSET Rows]
  <2>1. \A s \in Stream : captured'[s] \in SUBSET Rows
    BY <1>6, <1>7 DEF Ticked
  <2>2. captured' = [s \in Stream |-> captured'[s]]
    BY <1>1, <1>2
  <2> QED BY <2>1, <2>2
<1>9. /\ lastDump' \in Int /\ failures' \in Nat /\ lastDump' <= clock + 1 + DumpEvery
      /\ held' \in [Stream -> Seq(Rows)] /\ buffered' \in [Stream -> Seq(Rows)]
      /\ files' \in [Stream -> Seq(Rows)]
      /\ \A s \in Stream :
            Stored(ToSet(held'[s]), ToSet(buffered'[s]), ToSet(files'[s]),
                   CapturedNow(newUid, s), clock + 1, lastDump', failures', kills)
  <2>1. CASE DumpSucceeds(StorageNow(newUid), clock + 1)
    <3>1. ASSUME NEW s \in Stream
          PROVE  /\ lastDump' = clock + 1 + DumpEvery /\ failures' = failures
                 /\ held' \in [Stream -> Seq(Rows)] /\ buffered' \in [Stream -> Seq(Rows)]
                 /\ files' \in [Stream -> Seq(Rows)]
                 /\ Stored(ToSet(held'[s]), ToSet(buffered'[s]), ToSet(files'[s]),
                           CapturedNow(newUid, s), clock + 1, lastDump', failures', kills)
      BY <2>1, <1>3, <1>4, DumpSucceedsKeeps
    <3>2. "books" \in Stream
      BY TwoStreams
    <3>3. /\ lastDump' = clock + 1 + DumpEvery /\ failures' = failures
          /\ held' \in [Stream -> Seq(Rows)] /\ buffered' \in [Stream -> Seq(Rows)]
          /\ files' \in [Stream -> Seq(Rows)]
      BY <3>1, <3>2
    <3>4. lastDump' \in Int /\ lastDump' <= clock + 1 + DumpEvery /\ failures' \in Nat
      BY <3>3, <1>1, RecorderBounds
    <3> QED BY <3>1, <3>3, <3>4
  <2>2. CASE DumpFails(StorageNow(newUid), clock + 1)
    <3>1. ASSUME NEW s \in Stream
          PROVE  /\ lastDump' = lastDump /\ failures' = failures + 1
                 /\ held' \in [Stream -> Seq(Rows)] /\ buffered' \in [Stream -> Seq(Rows)]
                 /\ files' \in [Stream -> Seq(Rows)]
                 /\ Stored(ToSet(held'[s]), ToSet(buffered'[s]), ToSet(files'[s]),
                           CapturedNow(newUid, s), clock + 1, lastDump', failures', kills)
      BY <2>2, <1>3, <1>4, DumpFailsKeeps
    <3>2. "books" \in Stream
      BY TwoStreams
    <3>3. /\ lastDump' = lastDump /\ failures' = failures + 1
          /\ held' \in [Stream -> Seq(Rows)] /\ buffered' \in [Stream -> Seq(Rows)]
          /\ files' \in [Stream -> Seq(Rows)]
      BY <3>1, <3>2
    <3>4. lastDump' \in Int /\ lastDump' <= clock + 1 + DumpEvery /\ failures' \in Nat
      BY <3>3, <1>0, <1>1, RecorderBounds
    <3> QED BY <3>1, <3>3, <3>4
  <2>3. CASE /\ ~(lastDump < clock + 1)
             /\ held' = StorageNow(newUid)
             /\ UNCHANGED <<buffered, files, lastDump, failures>>
    <3>1. lastDump' = lastDump /\ failures' = failures /\ buffered' = buffered /\ files' = files
      BY <2>3
    <3>2. \A s \in Stream :
            Stored(ToSet(held'[s]), ToSet(buffered'[s]), ToSet(files'[s]),
                   CapturedNow(newUid, s), clock + 1, lastDump', failures', kills)
      <4> TAKE s \in Stream
      <4> DEFINE h == ToSet(held[s])
                 b == ToSet(buffered[s])
                 f == ToSet(files[s])
                 h1 == ToSet(StorageNow(newUid)[s])
                 c1 == CapturedNow(newUid, s)
      <4>1. Stored(h, b, f, captured[s], clock, lastDump, failures, kills)
        BY <1>5
      <4>2. Ticked(h, captured[s], h1, c1, clock)
        BY <1>7
      <4>3. Dumped(h1, c1, f, h1, b, f)
        <5>1. b \subseteq h /\ h \subseteq h1 /\ f \subseteq c1 /\ h1 \subseteq c1
          BY <4>1, <4>2 DEF Stored, Ticked
        <5> HIDE DEF h, b, f, c1, h1
        <5> QED BY <5>1 DEF Dumped
      <4>4. OnTime(h1, clock, lastDump, failures, lastDump, failures)
        BY <2>3, <1>0, <1>1 DEF OnTime
      <4> HIDE DEF h, b, f, c1, h1
      <4>5. Stored(h1, b, f, c1, clock + 1, lastDump, failures, kills)
        BY <4>1, <4>2, <4>3, <4>4, <1>1, TickKeeps
      <4> QED BY <4>5, <3>1, <2>3 DEF h1, b, f, c1
    <3>3. "books" \in Stream
      BY TwoStreams
    <3>4. lastDump' <= clock + 1 + DumpEvery
      BY <3>1, <1>0, <1>1, RecorderBounds
    <3>5. held' \in [Stream -> Seq(Rows)]
      BY <2>3, <3>3, <1>7
    <3> QED BY <3>1, <3>2, <3>4, <3>5, <1>1
  <2> QED BY <2>1, <2>2, <2>3, <1>2
<1>10. RecorderTypes'
  <2>1. /\ held' \in [Stream -> Seq(Rows)] /\ buffered' \in [Stream -> Seq(Rows)]
        /\ files' \in [Stream -> Seq(Rows)] /\ captured' \in [Stream -> SUBSET Rows]
        /\ lastDump' \in Int /\ failures' \in Nat
    BY <1>8, <1>9
  <2>2. clock' \in Nat /\ uid' \in Nat /\ lastUid' \in Nat /\ kills' \in SUBSET Nat
    BY <1>1, <1>2, <1>3, <1>4
  <2> QED BY <2>1, <2>2 DEF RecorderTypes
<1>11. \A s \in Stream :
          Stored(ToSet(held'[s]), ToSet(buffered'[s]), ToSet(files'[s]), captured'[s],
                 clock', lastDump', failures', kills')
  BY <1>3, <1>6, <1>9
<1>12. uid' <= clock' /\ lastDump' <= clock' + DumpEvery
  BY <1>2, <1>3, <1>4, <1>9
<1> QED BY <1>10, <1>11, <1>12 DEF RecorderInv

LEMMA TradeHolds ==
    ASSUME RecorderInv, Trade
    PROVE  RecorderInv'
<1> DEFINE row == [key |-> clock, local |-> clock]
<1>0. RecorderTypes /\ uid <= clock /\ lastDump <= clock + DumpEvery
  BY DEF RecorderInv
<1>1. /\ clock \in Nat /\ lastDump \in Int /\ failures \in Nat /\ kills \in SUBSET Nat
      /\ held \in [Stream -> Seq(Rows)] /\ captured \in [Stream -> SUBSET Rows]
      /\ "trades" \in Stream /\ held["trades"] \in Seq(Rows) /\ clock > 0
  BY <1>0, TwoStreams DEF RecorderTypes, Trade
<1>2. row \in Rows /\ row.key = clock /\ row.local = clock
  BY <1>1 DEF Rows
<1>3. /\ held' = [held EXCEPT !["trades"] = Append(@, row)]
      /\ captured' = [captured EXCEPT !["trades"] = @ \union {row}]
      /\ UNCHANGED <<clock, uid, lastUid, buffered, files, torn, lastDump, failures, kills>>
  BY DEF Trade, Capture
<1> HIDE DEF row
<1>4. /\ Append(held["trades"], row) \in Seq(Rows)
      /\ ToSet(Append(held["trades"], row)) = ToSet(held["trades"]) \union {row}
  BY <1>1, <1>2, RowsAppended
<1>5. RecorderTypes'
  <2>1. held' \in [Stream -> Seq(Rows)]
    BY <1>1, <1>3, <1>4
  <2>2. captured' \in [Stream -> SUBSET Rows]
    BY <1>1, <1>2, <1>3
  <2> QED BY <2>1, <2>2, <1>0, <1>3 DEF RecorderTypes
<1>6. ASSUME NEW s \in Stream
      PROVE  Stored(ToSet(held'[s]), ToSet(buffered'[s]), ToSet(files'[s]), captured'[s],
                    clock', lastDump', failures', kills')
  <2> DEFINE h == ToSet(held[s])
             b == ToSet(buffered[s])
             f == ToSet(files[s])
             c == captured[s]
             h2 == ToSet(held'[s])
             c2 == captured'[s]
  <2>1. Stored(h, b, f, c, clock, lastDump, failures, kills)
    BY DEF RecorderInv
  <2>2. CASE s # "trades"
    <3>1. held'[s] = held[s] /\ captured'[s] = captured[s]
      BY <2>2, <1>1, <1>3
    <3> QED BY <3>1, <2>1, <1>3
  <2>3. CASE s = "trades"
    <3>1. h2 = h \union {row} /\ c2 = c \union {row}
      BY <2>3, <1>1, <1>3, <1>4
    <3>2. Stored(h2, b, f, c2, clock, lastDump, failures, kills)
      <4> HIDE DEF h, b, f, c, h2, c2
      <4>1. b \subseteq h2 /\ h2 \subseteq c2 /\ f \subseteq c2
        BY <2>1, <3>1 DEF Stored
      <4>2. \A r \in c2 : /\ r.key >= 1 /\ r.key <= clock /\ r.local <= clock
                          /\ r \in f \/ r \in h2 \/ Lost(r, kills, failures)
        BY <2>1, <3>1, <1>1, <1>2 DEF Stored
      <4>3. failures = 0 => \A r \in h2 : /\ lastDump - DumpEvery <= r.local
                                          /\ lastDump < clock => clock <= r.local
        <5>1. lastDump - DumpEvery <= row.local
          BY <1>0, <1>1, <1>2, RecorderBounds
        <5>2. failures = 0 => \A r \in h : /\ lastDump - DumpEvery <= r.local
                                           /\ lastDump < clock => clock <= r.local
          BY <2>1 DEF Stored
        <5>3. clock <= row.local
          BY <1>1, <1>2
        <5>4. h2 = h \union {row}
          BY <3>1
        <5> QED BY <5>1, <5>2, <5>3, <5>4
      <4> QED BY <4>1, <4>2, <4>3 DEF Stored
    <3> QED BY <3>2, <1>3
  <2> QED BY <2>2, <2>3
<1> QED BY <1>0, <1>3, <1>5, <1>6 DEF RecorderInv

LEMMA KillHolds ==
    ASSUME RecorderInv, Kill
    PROVE  RecorderInv'
<1>0. RecorderTypes /\ uid <= clock /\ lastDump <= clock + DumpEvery
  BY DEF RecorderInv
<1>1. /\ clock \in Nat /\ lastDump \in Int /\ failures \in Nat /\ kills \in SUBSET Nat
      /\ captured \in [Stream -> SUBSET Rows]
  BY <1>0 DEF RecorderTypes
<1>2. /\ kills' = kills \union {clock} /\ held' = Empty /\ buffered' = Empty
      /\ lastUid' = 0 /\ lastDump' = 0
      /\ UNCHANGED <<clock, uid, files, failures, captured>>
  BY DEF Kill, None
<1>3. Empty \in [Stream -> Seq(Rows)] /\ \A s \in Stream : ToSet(Empty[s]) = {}
  <2>1. <<>> \in Seq(Rows)
    OBVIOUS
  <2> QED BY <2>1, RowsIn DEF Empty
<1>4. RecorderTypes'
  BY <1>0, <1>1, <1>2, <1>3 DEF RecorderTypes
<1>5. ASSUME NEW s \in Stream
      PROVE  Stored(ToSet(held'[s]), ToSet(buffered'[s]), ToSet(files'[s]), captured'[s],
                    clock', lastDump', failures', kills')
  <2> DEFINE h == ToSet(held[s])
             b == ToSet(buffered[s])
             f == ToSet(files[s])
             c == captured[s]
  <2>1. Stored(h, b, f, c, clock, lastDump, failures, kills)
    BY DEF RecorderInv
  <2>2. c \subseteq Rows
    BY <1>1
  <2>3. Stored({}, {}, f, c, clock, 0, failures, kills \union {clock})
    <3> HIDE DEF h, b, f, c
    <3>1. \A row \in c : row.local \in Int
      BY <2>2 DEF Rows
    <3>2. ASSUME NEW row \in h PROVE Lost(row, kills \union {clock}, failures)
      <4>1. row \in c /\ row.local <= clock
        BY <2>1 DEF Stored
      <4>2. failures = 0 => row.local > clock - DumpEvery - 1
        BY <4>1, <3>1, <3>2, <2>1, <1>1, RecorderBounds DEF Stored
      <4> QED BY <4>1, <4>2 DEF Lost
    <3>3. \A row : Lost(row, kills, failures) => Lost(row, kills \union {clock}, failures)
      BY DEF Lost
    <3> QED BY <3>2, <3>3, <2>1 DEF Stored
  <2> QED BY <2>3, <1>2, <1>3
<1>6. lastDump' <= clock' + DumpEvery
  BY <1>1, <1>2, RecorderBounds
<1> QED BY <1>0, <1>2, <1>4, <1>5, <1>6 DEF RecorderInv

-----------------------------------------------------------------------------
(* Loading: the last rows of the keys, by their ranks.                     *)

Earlier(set) == {p \in set \X set : Before(p[1], p[2])}

Ranked(set) == InOrder(set, Earlier(set))

LEMMA LoadedIs == \A rows : Loaded(rows) = Ranked(LastOfKeys(rows))
BY DEF Loaded, Ranked, Earlier

DistinctKeys(set) == \A a, b \in set : a.key = b.key => a = b

(* Rows of distinct keys are sorted by their keys.                         *)
LEMMA RankSorts ==
    ASSUME NEW set \in SUBSET Rows, IsFiniteSet(set), DistinctKeys(set)
    PROVE  /\ Cardinality(set) \in Nat
           /\ Ranked(set) \in [1 .. Cardinality(set) -> set]
           /\ \A a \in set : \E i \in 1 .. Cardinality(set) : Ranked(set)[i] = a
           /\ \A i, j \in 1 .. Cardinality(set) : i < j => Ranked(set)[i].key < Ranked(set)[j].key
<1>1. \A a \in set : a.key \in Int /\ a.local \in Int
  BY DEF Rows
<1>2. \A a, b \in set : <<a, b>> \in Earlier(set) <=> a.key < b.key
  <2> SUFFICES ASSUME NEW a \in set, NEW b \in set
               PROVE  Before(a, b) <=> a.key < b.key
    BY DEF Earlier
  <2>1. CASE a.key = b.key
    <3>1. a = b
      BY <2>1 DEF DistinctKeys
    <3> QED BY <3>1, <1>1 DEF Before
  <2>2. CASE a.key # b.key
    BY <2>2 DEF Before
  <2> QED BY <2>1, <2>2
<1>3. StrictlyOrders(Earlier(set), set)
  <2>1. \A a, b \in set : a # b => a.key < b.key \/ b.key < a.key
    BY <1>1 DEF DistinctKeys
  <2> QED BY <1>1, <1>2, <2>1 DEF StrictlyOrders
<1> DEFINE n == Cardinality(set)
           s == Ranked(set)
<1>4. /\ n \in Nat /\ s \in [1 .. n -> set]
      /\ \A a \in set : \E i \in 1 .. n : s[i] = a
      /\ \A i, j \in 1 .. n : i < j => <<s[i], s[j]>> \in Earlier(set)
  BY <1>3, OrderSorts DEF Ranked
<1> HIDE DEF n, s
<1>5. \A i \in 1 .. n : s[i] \in set
  BY <1>4
<1>6. \A i, j \in 1 .. n : i < j => s[i].key < s[j].key
  BY <1>2, <1>4, <1>5
<1> QED BY <1>4, <1>6 DEF n, s

LEMMA RowsAreFinite ==
    ASSUME NEW X, NEW s \in Seq(X)
    PROVE  IsFiniteSet(ToSet(s))
<1>1. Len(s) \in Nat /\ DOMAIN s = 1 .. Len(s)
  OBVIOUS
<1>2. IsFiniteSet(1 .. Len(s))
  BY <1>1, FS_Interval
<1> DEFINE f == [i \in 1 .. Len(s) |-> s[i]]
<1>3. f \in Surjection(1 .. Len(s), ToSet(s))
  BY <1>1 DEF Surjection, ToSet
<1> HIDE DEF f
<1> QED BY <1>2, <1>3, FS_Surjection

(* Every key has a last row, and only one.                                 *)
LEMMA LastRows ==
    ASSUME NEW rows \in Seq(Rows)
    PROVE  /\ LastOfKeys(rows) \in SUBSET Rows /\ LastOfKeys(rows) \subseteq ToSet(rows)
           /\ IsFiniteSet(LastOfKeys(rows)) /\ DistinctKeys(LastOfKeys(rows))
           /\ \A row \in ToSet(rows) : \E last \in LastOfKeys(rows) : last.key = row.key
<1> DEFINE n == Len(rows)
           IsLast(i) == \A k \in i + 1 .. n : rows[k].key # rows[i].key
<1>1. n \in Nat /\ DOMAIN rows = 1 .. n /\ \A i \in 1 .. n : rows[i] \in Rows
  <2>1. \A i \in DOMAIN rows : rows[i] \in Rows
    OBVIOUS
  <2> QED BY <2>1
<1>2. LastOfKeys(rows) = {rows[i] : i \in {j \in 1 .. n : IsLast(j)}}
  BY <1>1 DEF LastOfKeys
<1>3. ToSet(rows) = {rows[i] : i \in 1 .. n}
  BY <1>1 DEF ToSet
<1> HIDE DEF n
<1>4. DistinctKeys(LastOfKeys(rows))
  <2>1. ASSUME NEW i \in 1 .. n, NEW j \in 1 .. n, IsLast(i), IsLast(j), rows[i].key = rows[j].key
        PROVE  i = j
    <3>1. ~(i < j)
      <4>1. i < j => j \in i + 1 .. n
        BY <1>1
      <4> QED BY <2>1, <4>1
    <3>2. ~(j < i)
      <4>1. j < i => i \in j + 1 .. n
        BY <1>1
      <4> QED BY <2>1, <4>1
    <3> QED BY <1>1, <3>1, <3>2
  <2> HIDE DEF IsLast
  <2> QED BY <2>1, <1>2 DEF DistinctKeys
<1>5. LastOfKeys(rows) \subseteq ToSet(rows) /\ ToSet(rows) \subseteq Rows
  <2> HIDE DEF IsLast
  <2> QED BY <1>1, <1>2, <1>3
<1>6. IsFiniteSet(LastOfKeys(rows))
  <2>1. IsFiniteSet(ToSet(rows))
    BY RowsAreFinite
  <2> QED BY <2>1, <1>5, FS_Subset
<1>7. ASSUME NEW i \in 1 .. n PROVE \E last \in LastOfKeys(rows) : last.key = rows[i].key
  <2> DEFINE same == {j \in 1 .. n : rows[j].key = rows[i].key}
             m == Max(same)
  <2>1. same \in SUBSET (1 .. n) /\ same # {} /\ i \in same
    OBVIOUS
  <2> HIDE DEF same
  <2>2. m \in same /\ \A j \in same : j <= m
    BY <1>1, <2>1, SomeLast
  <2> HIDE DEF m
  <2>4. m \in 1 .. n /\ rows[m].key = rows[i].key
    BY <2>2 DEF same
  <2>5. IsLast(m)
    <3>1. ASSUME NEW k \in m + 1 .. n, rows[k].key = rows[m].key PROVE FALSE
      <4>1. k \in 1 .. n /\ k > m
        BY <1>1, <2>4
      <4>2. k \in same
        BY <4>1, <2>4, <3>1 DEF same
      <4> QED BY <1>1, <2>2, <2>4, <4>1, <4>2
    <3> QED BY <3>1
  <2> HIDE DEF IsLast
  <2> QED BY <2>4, <2>5, <1>2
<1> QED BY <1>3, <1>4, <1>5, <1>6, <1>7

LEMMA LoadedRows ==
    ASSUME NEW rows \in Seq(Rows)
    PROVE  /\ Loaded(rows) \in Seq(Rows) /\ Len(Loaded(rows)) \in Nat
           /\ DOMAIN Loaded(rows) = 1 .. Len(Loaded(rows))
           /\ ToSet(Loaded(rows)) = LastOfKeys(rows)
           /\ \A i, j \in DOMAIN Loaded(rows) : i < j => Loaded(rows)[i].key < Loaded(rows)[j].key
<1> DEFINE set == LastOfKeys(rows)
           n == Cardinality(set)
           loaded == Ranked(set)
<1>1. /\ set \in SUBSET Rows /\ IsFiniteSet(set) /\ DistinctKeys(set)
  BY LastRows
<1> HIDE DEF set
<1>2. /\ n \in Nat
      /\ loaded \in [1 .. n -> set]
      /\ \A a \in set : \E i \in 1 .. n : loaded[i] = a
      /\ \A i, j \in 1 .. n : i < j => loaded[i].key < loaded[j].key
  BY <1>1, RankSorts
<1> HIDE DEF loaded, n
<1>3. DOMAIN loaded = 1 .. n /\ \A i \in 1 .. n : loaded[i] \in set
  BY <1>2
<1>4. loaded \in [1 .. n -> Rows]
  BY <1>1, <1>2
<1>5. loaded \in Seq(Rows)
  BY <1>2, <1>4, IsASeq
<1>6. Len(loaded) = n
  BY <1>2, <1>3, <1>5
<1>7. ToSet(loaded) = set
  BY <1>2, <1>3 DEF ToSet
<1>8. Loaded(rows) = loaded
  BY LoadedIs DEF loaded, set
<1> QED BY <1>2, <1>3, <1>5, <1>6, <1>7, <1>8 DEF set

LEMMA LoadedFromInv == RecorderInv => LoadedIsCaptured
<1> SUFFICES ASSUME RecorderInv, NEW s \in Stream
             PROVE  LET loaded == Loaded(files[s]) IN
                    /\ \A i, j \in DOMAIN loaded : i < j => loaded[i].key < loaded[j].key
                    /\ Keys(ToSet(loaded)) \subseteq Keys(captured[s])
                    /\ \A row \in captured[s] :
                          \/ row.key \in Keys(ToSet(loaded) \union ToSet(held[s]))
                          \/ \E k \in kills : /\ row.local <= k
                                              /\ failures = 0 => row.local > k - DumpEvery - 1
  BY DEF LoadedIsCaptured
<1> DEFINE loaded == Loaded(files[s])
           h == ToSet(held[s])
           f == ToSet(files[s])
           l == ToSet(loaded)
<1>1. files[s] \in Seq(Rows)
  BY DEF RecorderInv, RecorderTypes
<1>2. Stored(h, ToSet(buffered[s]), f, captured[s], clock, lastDump, failures, kills)
  BY DEF RecorderInv
<1>3. /\ l \subseteq f
      /\ \A row \in f : \E last \in l : last.key = row.key
      /\ \A i, j \in DOMAIN loaded : i < j => loaded[i].key < loaded[j].key
  BY <1>1, LoadedRows, LastRows
<1> HIDE DEF loaded, h, f, l
<1>4. Keys(l) \subseteq Keys(captured[s])
  BY <1>2, <1>3 DEF Stored, Keys
<1>5. ASSUME NEW row \in captured[s]
      PROVE  row.key \in Keys(l \union h) \/ Lost(row, kills, failures)
  <2>1. CASE row \in f
    <3>1. PICK last \in l : last.key = row.key
      BY <2>1, <1>3
    <3> QED BY <3>1 DEF Keys
  <2>2. CASE row \in h
    BY <2>2 DEF Keys
  <2> QED BY <2>1, <2>2, <1>2 DEF Stored
<1> QED BY <1>3, <1>4, <1>5 DEF Lost, l, h, loaded

-----------------------------------------------------------------------------
(* Sequences whose elements have no type of their own.                     *)

IsSequence(s) == \E X : s \in Seq(X)

LEMMA EmptySequence == IsSequence(<<>>) /\ Len(<<>>) = 0
<1>1. <<>> \in Seq({})
  OBVIOUS
<1> QED BY <1>1 DEF IsSequence

LEMMA SequenceIs ==
    ASSUME NEW s, IsSequence(s)
    PROVE  /\ Len(s) \in Nat /\ DOMAIN s = 1 .. Len(s)
           /\ s = <<>> <=> Len(s) = 0
<1>1. PICK X : s \in Seq(X)
  BY DEF IsSequence
<1> QED BY <1>1

LEMMA AppendedIs ==
    ASSUME NEW s, IsSequence(s), NEW e
    PROVE  /\ IsSequence(Append(s, e)) /\ Len(Append(s, e)) = Len(s) + 1
           /\ \A i \in 1 .. Len(s) : Append(s, e)[i] = s[i]
           /\ Append(s, e)[Len(s) + 1] = e
<1>1. PICK X : s \in Seq(X)
  BY DEF IsSequence
<1> DEFINE Y == X \union {e}
<1>2. s \in Seq(Y) /\ e \in Y
  <2>1. /\ Len(s) \in Nat /\ DOMAIN s = 1 .. Len(s) /\ \A i \in 1 .. Len(s) : s[i] \in X
        /\ s = [i \in 1 .. Len(s) |-> s[i]]
    BY <1>1
  <2>2. s \in [1 .. Len(s) -> Y]
    BY <2>1
  <2> HIDE DEF Y
  <2>3. s \in Seq(Y)
    BY <2>1, <2>2, IsASeq
  <2> QED BY <2>3 DEF Y
<1> HIDE DEF Y
<1>3. /\ Append(s, e) \in Seq(Y) /\ Len(Append(s, e)) = Len(s) + 1
      /\ \A i \in 1 .. Len(s) : Append(s, e)[i] = s[i]
      /\ Append(s, e)[Len(s) + 1] = e
  BY <1>2
<1> QED BY <1>3 DEF IsSequence

LEMMA SuffixIs ==
    ASSUME NEW s, IsSequence(s), NEW m \in 1 .. Len(s)
    PROVE  /\ IsSequence(SubSeq(s, m, Len(s))) /\ Len(SubSeq(s, m, Len(s))) = Len(s) - (m - 1)
           /\ \A i \in 1 .. Len(s) - (m - 1) : SubSeq(s, m, Len(s))[i] = s[i + (m - 1)]
<1>1. PICK X : s \in Seq(X)
  BY DEF IsSequence
<1>2. Len(s) \in Nat /\ m \in 1 .. Len(s)
  BY <1>1
<1>3. /\ SubSeq(s, m, Len(s)) \in Seq(X) /\ Len(SubSeq(s, m, Len(s))) = Len(s) - m + 1
      /\ \A i \in 1 .. Len(s) - m + 1 : SubSeq(s, m, Len(s))[i] = s[m + i - 1]
  BY <1>1, <1>2, SubSeqProperties
<1>4. Len(s) - m + 1 = Len(s) - (m - 1)
  BY <1>2
<1>5. \A i \in 1 .. Len(s) - m + 1 : SubSeq(s, m, Len(s))[i] = s[i + (m - 1)]
  <2>1. \A i \in 1 .. Len(s) - m + 1 : m + i - 1 = i + (m - 1)
    BY <1>2
  <2> QED BY <1>3, <2>1
<1> QED BY <1>3, <1>4, <1>5 DEF IsSequence

(* How many of ascending times are at most t.                              *)
LEMMA BisectIs ==
    ASSUME NEW n \in Nat, NEW times, DOMAIN times = 1 .. n,
           \A i \in 1 .. n : times[i] \in Int,
           \A i, j \in 1 .. n : i < j => times[i] < times[j],
           NEW t \in Int
    PROVE  /\ BisectRight(times, t) \in 0 .. n
           /\ \A i \in 1 .. n : times[i] <= t <=> i <= BisectRight(times, t)
<1> DEFINE Good == {m \in 0 .. n : \E b \in 0 .. m : \A i \in 1 .. m : times[i] <= t <=> i <= b}
<1>1. 0 \in Good
  BY DEF Good
<1>2. ASSUME NEW m \in 1 .. n, m - 1 \in Good PROVE m \in Good
  <2>1. PICK b \in 0 .. m - 1 : \A i \in 1 .. m - 1 : times[i] <= t <=> i <= b
    BY <1>2
  <2>2. CASE times[m] <= t
    <3>1. \A i \in 1 .. m : times[i] <= t
      <4>1. \A i \in 1 .. m - 1 : times[i] < times[m] /\ times[i] \in Int
        BY <1>2
      <4>2. times[m] \in Int
        OBVIOUS
      <4> QED BY <2>2, <4>1, <4>2
    <3>2. m \in 0 .. m /\ \A i \in 1 .. m : times[i] <= t <=> i <= m
      BY <3>1
    <3> QED BY <3>2
  <2>3. CASE ~(times[m] <= t)
    <3>1. \A i \in 1 .. m : i \in 1 .. m - 1 \/ i = m
      OBVIOUS
    <3>2. b \in 0 .. m /\ ~(m <= b) /\ m \in 0 .. n
      OBVIOUS
    <3>3. \A i \in 1 .. m : times[i] <= t <=> i <= b
      BY <2>1, <2>3, <3>1, <3>2
    <3> QED BY <3>2, <3>3
  <2> QED BY <2>2, <2>3
<1> HIDE DEF Good
<1>3. n \in Good
  <2>1. \A i \in 0 .. n : i \in Good
    BY <1>1, <1>2, StepInduction
  <2> QED BY <2>1
<1>4. PICK b \in 0 .. n : \A i \in 1 .. n : times[i] <= t <=> i <= b
  BY <1>3 DEF Good
<1>5. {i \in 1 .. n : times[i] <= t} = 1 .. b
  BY <1>4
<1>6. Cardinality(1 .. b) = b
  BY FS_Interval
<1>7. BisectRight(times, t) = b
  BY <1>5, <1>6 DEF BisectRight
<1> QED BY <1>4, <1>7

-----------------------------------------------------------------------------
(***************************************************************************)
(* The position context: the states it keeps stand for all it was given,   *)
(* and its extremes for all returns since the position was entered.        *)
(***************************************************************************)

IsState(st) == st.timestamp \in Nat /\ st.timestamp >= 1 /\ st.mid \in Int

RealPositions == [entry : Nat \ {0}, direction : {1, -1}, price : Int]

TimeOf(s, i) == s[i].state.timestamp

SeenOk(s) ==
    /\ IsSequence(s)
    /\ \A i \in 1 .. Len(s) : IsState(s[i].state)
    /\ \A i, j \in 1 .. Len(s) : i < j => TimeOf(s, i) < TimeOf(s, j)

IsGap(k, i) == TimeOf(k, i + 1) - TimeOf(k, i) > MaxGap

(* What is kept are the last states seen, cut into segments; of the others *)
(* none is needed.                                                         *)
KeptOk(s, k, g) ==
    /\ IsSequence(k) /\ Len(k) <= Len(s) /\ g \in Int
    /\ Len(s) > 0 => Len(k) > 0
    /\ Len(k) > 0 => k[Len(k)].segment = g
    /\ \A i \in 1 .. Len(k) : /\ k[i].segment \in Int
                              /\ k[i].state = s[i + (Len(s) - Len(k))].state
    /\ \A i \in 1 .. Len(k) - 1 :
          k[i + 1].segment = IF IsGap(k, i) THEN k[i].segment + 1 ELSE k[i].segment
    /\ Len(k) < Len(s) => TimeOf(k, 1) <= TimeOf(s, Len(s)) - Keep

LEMMA ContextBounds ==
    MaxGap \in Nat /\ Keep \in Nat /\ \A lag \in Lags : lag \in Nat /\ lag <= Keep
<1>1. MaxGap \in Nat /\ Keep \in Nat /\ \A lag \in Lags : lag \in Nat /\ Keep >= lag + MaxGap
  BY ContextAssumption
<1> QED BY <1>1

LEMMA KeptTimes ==
    ASSUME NEW s, NEW k, NEW g, SeenOk(s), KeptOk(s, k, g)
    PROVE  /\ Len(s) \in Nat /\ Len(k) \in Nat /\ Len(k) <= Len(s)
           /\ \A i \in 1 .. Len(s) : TimeOf(s, i) \in Int
           /\ \A i \in 1 .. Len(k) : /\ i + (Len(s) - Len(k)) \in 1 .. Len(s)
                                     /\ TimeOf(k, i) \in Int
                                     /\ TimeOf(k, i) = TimeOf(s, i + (Len(s) - Len(k)))
           /\ \A i, j \in 1 .. Len(k) : i < j => TimeOf(k, i) < TimeOf(k, j)
<1>1. Len(s) \in Nat /\ Len(k) \in Nat /\ Len(k) <= Len(s)
  BY SequenceIs DEF SeenOk, KeptOk
<1>2. \A i \in 1 .. Len(s) : TimeOf(s, i) \in Int
  BY DEF SeenOk, IsState, TimeOf
<1>3. \A i \in 1 .. Len(k) : i + (Len(s) - Len(k)) \in 1 .. Len(s)
  BY <1>1
<1>4. \A i \in 1 .. Len(k) : TimeOf(k, i) = TimeOf(s, i + (Len(s) - Len(k)))
  BY DEF KeptOk, TimeOf
<1>5. \A i, j \in 1 .. Len(k) : i < j => TimeOf(k, i) < TimeOf(k, j)
  <2> TAKE i, j \in 1 .. Len(k)
  <2> HAVE i < j
  <2> DEFINE off == Len(s) - Len(k)
  <2>1. i + off \in 1 .. Len(s) /\ j + off \in 1 .. Len(s) /\ i + off < j + off
    BY <1>1
  <2>2. TimeOf(s, i + off) < TimeOf(s, j + off)
    BY <2>1 DEF SeenOk
  <2> QED BY <2>2, <1>4
<1> QED BY <1>1, <1>2, <1>3, <1>4, <1>5

LEMMA SeenGrows ==
    ASSUME NEW s, SeenOk(s), NEW st, IsState(st),
           \A i \in 1 .. Len(s) : TimeOf(s, i) < st.timestamp, NEW p
    PROVE  LET s2 == Append(s, [state |-> st, position |-> p]) IN
           /\ SeenOk(s2) /\ Len(s2) = Len(s) + 1 /\ TimeOf(s2, Len(s2)) = st.timestamp
           /\ \A i \in 1 .. Len(s) : s2[i] = s[i]
           /\ s2[Len(s2)].state = st /\ s2[Len(s2)].position = p
<1> DEFINE e == [state |-> st, position |-> p]
           s2 == Append(s, e)
<1>1. e.state = st /\ e.position = p
  OBVIOUS
<1> HIDE DEF e
<1>2. /\ IsSequence(s2) /\ Len(s2) = Len(s) + 1 /\ Len(s) \in Nat
      /\ \A i \in 1 .. Len(s) : s2[i] = s[i]
      /\ s2[Len(s) + 1] = e
  BY AppendedIs, SequenceIs DEF SeenOk
<1> HIDE DEF s2
<1>3. \A i \in 1 .. Len(s2) : i \in 1 .. Len(s) \/ i = Len(s) + 1
  BY <1>2
<1>4. \A i \in 1 .. Len(s2) : IsState(s2[i].state)
  BY <1>1, <1>2, <1>3 DEF SeenOk
<1>5. \A i \in 1 .. Len(s) : TimeOf(s2, i) = TimeOf(s, i)
  BY <1>2 DEF TimeOf
<1>6. TimeOf(s2, Len(s) + 1) = st.timestamp
  BY <1>1, <1>2 DEF TimeOf
<1>7. ASSUME NEW i \in 1 .. Len(s2), NEW j \in 1 .. Len(s2), i < j
      PROVE  TimeOf(s2, i) < TimeOf(s2, j)
  <2>1. i \in 1 .. Len(s)
    BY <1>2, <1>7
  <2>2. CASE j \in 1 .. Len(s)
    BY <2>1, <2>2, <1>5, <1>7 DEF SeenOk
  <2>3. CASE j = Len(s) + 1
    BY <2>1, <2>3, <1>5, <1>6
  <2> QED BY <2>2, <2>3, <1>3
<1>8. SeenOk(s2)
  BY <1>2, <1>4, <1>7 DEF SeenOk
<1> QED BY <1>1, <1>2, <1>6, <1>8 DEF s2, e

(* A state is appended, in a segment of its own after a gap.               *)
LEMMA KeptGrows ==
    ASSUME NEW s, NEW k, NEW g, SeenOk(s), KeptOk(s, k, g), NEW st, IsState(st),
           \A i \in 1 .. Len(s) : TimeOf(s, i) < st.timestamp,
           NEW s2, SeenOk(s2), Len(s2) = Len(s) + 1, s2[Len(s2)].state = st,
           \A i \in 1 .. Len(s) : s2[i] = s[i],
           NEW g2, g2 = IF k # <<>> /\ st.timestamp - TimeOf(k, Len(k)) > MaxGap THEN g + 1 ELSE g
    PROVE  KeptOk(s2, Append(k, [state |-> st, segment |-> g2]), g2)
<1> DEFINE e == [state |-> st, segment |-> g2]
           k2 == Append(k, e)
<1>1. e.state = st /\ e.segment = g2
  OBVIOUS
<1> HIDE DEF e
<1>2. /\ IsSequence(k2) /\ Len(k2) = Len(k) + 1
      /\ \A i \in 1 .. Len(k) : k2[i] = k[i]
      /\ k2[Len(k) + 1] = e
  BY AppendedIs DEF KeptOk
<1> HIDE DEF k2
<1>3. Len(s) \in Nat /\ Len(k) \in Nat /\ Len(k) <= Len(s) /\ g \in Int /\ g2 \in Int
  BY KeptTimes DEF KeptOk
<1>4. /\ Len(k2) <= Len(s2) /\ Len(k2) > 0 /\ Len(s2) - Len(k2) = Len(s) - Len(k)
      /\ k2[Len(k2)].segment = g2
  BY <1>1, <1>2, <1>3
<1>5. ASSUME NEW i \in 1 .. Len(k2)
      PROVE  /\ k2[i].segment \in Int
             /\ k2[i].state = s2[i + (Len(s2) - Len(k2))].state
  <2>1. CASE i \in 1 .. Len(k)
    <3>1. i + (Len(s) - Len(k)) \in 1 .. Len(s)
      BY <2>1, <1>3
    <3>2. k[i].segment \in Int /\ k[i].state = s[i + (Len(s) - Len(k))].state
      BY <2>1 DEF KeptOk
    <3> QED BY <2>1, <3>1, <3>2, <1>2, <1>4
  <2>2. CASE i = Len(k) + 1
    <3>1. i + (Len(s2) - Len(k2)) = Len(s2)
      BY <2>2, <1>2, <1>3
    <3> QED BY <2>2, <3>1, <1>1, <1>2, <1>3
  <2> QED BY <2>1, <2>2, <1>2, <1>3
<1>6. \A i \in 1 .. Len(k) : TimeOf(k2, i) = TimeOf(k, i)
  BY <1>2 DEF TimeOf
<1>7. TimeOf(k2, Len(k) + 1) = st.timestamp
  BY <1>1, <1>2 DEF TimeOf
<1>8. ASSUME NEW i \in 1 .. Len(k2) - 1
      PROVE  k2[i + 1].segment = IF IsGap(k2, i) THEN k2[i].segment + 1 ELSE k2[i].segment
  <2>1. CASE i \in 1 .. Len(k) - 1
    <3>1. i \in 1 .. Len(k) /\ i + 1 \in 1 .. Len(k)
      BY <2>1, <1>3
    <3>2. IsGap(k2, i) <=> IsGap(k, i)
      BY <3>1, <1>6 DEF IsGap
    <3>3. k[i + 1].segment = IF IsGap(k, i) THEN k[i].segment + 1 ELSE k[i].segment
      BY <2>1 DEF KeptOk
    <3> QED BY <3>1, <3>2, <3>3, <1>2
  <2>2. CASE i = Len(k)
    <3>1. k # <<>> /\ i \in 1 .. Len(k)
      BY <2>2, <1>3, SequenceIs DEF KeptOk
    <3>2. IsGap(k2, i) <=> st.timestamp - TimeOf(k, Len(k)) > MaxGap
      BY <2>2, <3>1, <1>6, <1>7 DEF IsGap
    <3>3. k2[i].segment = g
      BY <2>2, <3>1, <1>2, <1>3 DEF KeptOk
    <3>4. k2[i + 1].segment = g2
      BY <2>2, <1>1, <1>2
    <3> QED BY <3>1, <3>2, <3>3, <3>4
  <2> QED BY <2>1, <2>2, <1>2, <1>3
<1>9. ASSUME Len(k2) < Len(s2) PROVE TimeOf(k2, 1) <= TimeOf(s2, Len(s2)) - Keep
  <2>1. Len(k) < Len(s) /\ Len(s) > 0
    BY <1>9, <1>2, <1>3
  <2>2. Len(k) > 0 /\ TimeOf(k, 1) <= TimeOf(s, Len(s)) - Keep
    BY <2>1 DEF KeptOk
  <2>3. 1 \in 1 .. Len(k) /\ Len(s) \in 1 .. Len(s)
    BY <2>1, <2>2, <1>3
  <2>4. TimeOf(s, Len(s)) < st.timestamp /\ TimeOf(s2, Len(s2)) = st.timestamp
    BY <2>3 DEF TimeOf
  <2>5. TimeOf(s, Len(s)) \in Int /\ TimeOf(k, 1) \in Int /\ st.timestamp \in Int
    BY <2>3, KeptTimes DEF IsState
  <2>6. TimeOf(k2, 1) = TimeOf(k, 1)
    BY <2>3, <1>6
  <2> QED BY <2>2, <2>4, <2>5, <2>6, ContextBounds
<1>10. KeptOk(s2, k2, g2)
  BY <1>2, <1>3, <1>4, <1>5, <1>8, <1>9 DEF KeptOk
<1> QED BY <1>10 DEF k2, e

(* The states before one that is old enough are not needed.                *)
LEMMA KeptTrims ==
    ASSUME NEW s, NEW k, NEW g, SeenOk(s), KeptOk(s, k, g), NEW m \in 1 .. Len(k), m > 1,
           TimeOf(k, m) <= TimeOf(s, Len(s)) - Keep
    PROVE  KeptOk(s, SubSeq(k, m, Len(k)), g)
<1> DEFINE k2 == SubSeq(k, m, Len(k))
           d == m - 1
<1>1. /\ IsSequence(k2) /\ Len(k2) = Len(k) - d
      /\ \A i \in 1 .. Len(k) - d : k2[i] = k[i + d]
  BY SuffixIs DEF KeptOk
<1> HIDE DEF k2
<1>2. Len(s) \in Nat /\ Len(k) \in Nat /\ Len(k) <= Len(s) /\ d \in Nat /\ d + 1 = m /\ d < Len(k)
  BY KeptTimes
<1> HIDE DEF d
<1>3. Len(k2) \in Nat /\ Len(k2) > 0 /\ Len(k2) <= Len(s)
  BY <1>1, <1>2
<1>4. k2[Len(k2)].segment = g
  <2>1. Len(k2) \in 1 .. Len(k) - d /\ Len(k2) + d = Len(k)
    BY <1>1, <1>2
  <2> QED BY <2>1, <1>1, <1>2 DEF KeptOk
<1>5. ASSUME NEW i \in 1 .. Len(k2)
      PROVE  k2[i].segment \in Int /\ k2[i].state = s[i + (Len(s) - Len(k2))].state
  <2>1. i + d \in 1 .. Len(k) /\ k2[i] = k[i + d]
    BY <1>1, <1>2
  <2>2. (i + d) + (Len(s) - Len(k)) = i + (Len(s) - Len(k2))
    BY <1>1, <1>2
  <2>3. k[i + d].segment \in Int /\ k[i + d].state = s[(i + d) + (Len(s) - Len(k))].state
    BY <2>1 DEF KeptOk
  <2> QED BY <2>1, <2>2, <2>3
<1>6. ASSUME NEW i \in 1 .. Len(k2) - 1
      PROVE  k2[i + 1].segment = IF IsGap(k2, i) THEN k2[i].segment + 1 ELSE k2[i].segment
  <2>1. i + d \in 1 .. Len(k) - 1 /\ (i + d) + 1 = (i + 1) + d
    BY <1>1, <1>2
  <2>2. k2[i] = k[i + d] /\ k2[i + 1] = k[(i + d) + 1]
    <3>1. i \in 1 .. Len(k) - d /\ i + 1 \in 1 .. Len(k) - d
      BY <1>1, <1>2
    <3> QED BY <2>1, <3>1, <1>1
  <2>3. IsGap(k2, i) <=> IsGap(k, i + d)
    BY <2>2 DEF IsGap, TimeOf
  <2>4. k[(i + d) + 1].segment = IF IsGap(k, i + d) THEN k[i + d].segment + 1 ELSE k[i + d].segment
    BY <2>1 DEF KeptOk
  <2> QED BY <2>2, <2>3, <2>4
<1>7. TimeOf(k2, 1) <= TimeOf(s, Len(s)) - Keep
  <2>1. 1 \in 1 .. Len(k) - d /\ 1 + d = m
    BY <1>2
  <2>2. k2[1] = k[m]
    BY <2>1, <1>1
  <2> QED BY <2>2 DEF TimeOf
<1>8. g \in Int
  BY DEF KeptOk
<1>9. KeptOk(s, k2, g)
  BY <1>1, <1>3, <1>4, <1>5, <1>6, <1>7, <1>8 DEF KeptOk
<1> QED BY <1>9 DEF k2

(* Two kept states are of one segment when no gap lies between them.       *)
LEMMA SegmentsAgree ==
    ASSUME NEW s, NEW k, NEW g, SeenOk(s), KeptOk(s, k, g), NEW m \in 1 .. Len(k)
    PROVE  k[m].segment = k[Len(k)].segment <=> \A i \in m .. Len(k) - 1 : ~IsGap(k, i)
<1> DEFINE n == Len(k) - m
           Agree(d) == /\ k[m + d].segment >= k[m].segment
                       /\ k[m + d].segment = k[m].segment <=> \A i \in m .. m + d - 1 : ~IsGap(k, i)
           Good == {d \in 0 .. n : Agree(d)}
<1>1. Len(k) \in Nat /\ m \in Nat /\ m >= 1 /\ n \in Nat /\ m + n = Len(k)
  BY KeptTimes
<1>2. \A i \in 1 .. Len(k) : k[i].segment \in Int
  BY DEF KeptOk
<1> HIDE DEF n
<1>3. 0 \in Good
  <2>1. m + 0 = m /\ m .. m + 0 - 1 = {}
    BY <1>1
  <2>2. Agree(0)
    BY <2>1, <1>2
  <2> HIDE DEF Agree
  <2> QED BY <2>2, <1>1
<1>4. ASSUME NEW d \in 1 .. n, d - 1 \in Good PROVE d \in Good
  <2> DEFINE j == m + d - 1
  <2>1. j \in 1 .. Len(k) - 1 /\ j + 1 = m + d /\ j + 1 \in 1 .. Len(k) /\ j = m + (d - 1)
    BY <1>1
  <2>2. Agree(d - 1)
    BY <1>4
  <2>3. k[m + d].segment = IF IsGap(k, j) THEN k[j].segment + 1 ELSE k[j].segment
    <3> HIDE DEF j
    <3>1. k[j + 1].segment = IF IsGap(k, j) THEN k[j].segment + 1 ELSE k[j].segment
      BY <2>1 DEF KeptOk
    <3> QED BY <3>1, <2>1
  <2>4. /\ k[j].segment >= k[m].segment
        /\ k[j].segment = k[m].segment <=> \A i \in m .. m + (d - 1) - 1 : ~IsGap(k, i)
    BY <2>1, <2>2
  <2>5. k[j].segment \in Int /\ k[m].segment \in Int
    BY <1>2, <2>1, <1>1
  <2>6. (\A i \in m .. m + d - 1 : ~IsGap(k, i))
        <=> (\A i \in m .. m + (d - 1) - 1 : ~IsGap(k, i)) /\ ~IsGap(k, j)
    <3>1. \A i \in m .. m + d - 1 : i \in m .. m + (d - 1) - 1 \/ i = j
      BY <1>1
    <3>2. j \in m .. m + d - 1 /\ \A i \in m .. m + (d - 1) - 1 : i \in m .. m + d - 1
      BY <1>1
    <3> HIDE DEF j
    <3> QED BY <3>1, <3>2
  <2> HIDE DEF j
  <2>7. Agree(d)
    <3>1. CASE IsGap(k, j)
      BY <3>1, <2>3, <2>4, <2>5, <2>6
    <3>2. CASE ~IsGap(k, j)
      BY <3>2, <2>3, <2>4, <2>5, <2>6
    <3> QED BY <3>1, <3>2
  <2> HIDE DEF Agree
  <2> QED BY <2>7, <1>1
<1> HIDE DEF Good
<1>5. n \in Good
  <2>1. \A d \in 0 .. n : d \in Good
    BY <1>1, <1>3, <1>4, StepInduction
  <2> QED BY <2>1, <1>1
<1>6. Agree(n)
  BY <1>5 DEF Good
<1>7. m + n = Len(k) /\ m + n - 1 = Len(k) - 1
  BY <1>1
<1> QED BY <1>6, <1>7, <1>2, <1>1

StatesTimes(s) == [i \in DOMAIN s |-> s[i].state.timestamp]

(* The state some time ago, from what was kept and from all that was seen. *)
AgoIn(s, lag) ==
    LET t == TimeOf(s, Len(s)) - lag
        i == BisectRight(StatesTimes(s), t)
    IN IF /\ i > 0
          /\ t - TimeOf(s, i) <= MaxGap
          /\ \A j \in i + 1 .. Len(s) : TimeOf(s, j) - TimeOf(s, j - 1) <= MaxGap
       THEN s[i].state
       ELSE NoState

(* _lag finds in what was kept what it would find in all that was seen.    *)
LEMMA LagIsAgo ==
    ASSUME NEW s, NEW k, NEW g, SeenOk(s), KeptOk(s, k, g), Len(s) > 0, NEW lag \in Lags
    PROVE  LagState(k, TimeOf(s, Len(s)) - lag) = AgoIn(s, lag)
<1> DEFINE t == TimeOf(s, Len(s)) - lag
           i == BisectRight(StatesTimes(s), t)
           m == BisectRight(StatesTimes(k), t)
           off == Len(s) - Len(k)
<1>1. /\ Len(s) \in Nat /\ Len(k) \in Nat /\ off \in Nat /\ Len(k) > 0 /\ Len(k) + off = Len(s)
      /\ Len(s) \in 1 .. Len(s) /\ Len(k) \in 1 .. Len(k) /\ 1 \in 1 .. Len(k)
  BY KeptTimes DEF KeptOk
<1>2. /\ \A j \in 1 .. Len(s) : TimeOf(s, j) \in Int
      /\ \A j \in 1 .. Len(k) : /\ j + off \in 1 .. Len(s) /\ TimeOf(k, j) \in Int
                                /\ TimeOf(k, j) = TimeOf(s, j + off)
      /\ \A a, b \in 1 .. Len(k) : a < b => TimeOf(k, a) < TimeOf(k, b)
      /\ \A a, b \in 1 .. Len(s) : a < b => TimeOf(s, a) < TimeOf(s, b)
  BY KeptTimes DEF SeenOk
<1>3. t \in Int /\ t >= TimeOf(s, Len(s)) - Keep
  BY <1>1, <1>2, ContextBounds
<1> HIDE DEF t
<1>4. /\ DOMAIN StatesTimes(s) = 1 .. Len(s) /\ DOMAIN StatesTimes(k) = 1 .. Len(k)
      /\ \A j \in 1 .. Len(s) : StatesTimes(s)[j] = TimeOf(s, j)
      /\ \A j \in 1 .. Len(k) : StatesTimes(k)[j] = TimeOf(k, j)
  <2>1. DOMAIN s = 1 .. Len(s) /\ DOMAIN k = 1 .. Len(k)
    BY SequenceIs DEF SeenOk, KeptOk
  <2> QED BY <2>1 DEF StatesTimes, TimeOf
<1>5. i \in 0 .. Len(s) /\ \A j \in 1 .. Len(s) : TimeOf(s, j) <= t <=> j <= i
  <2> DEFINE times == StatesTimes(s)
             n == Len(s)
  <2>1. n \in Nat /\ DOMAIN times = 1 .. n
    BY <1>1, <1>4
  <2>2. \A j \in 1 .. n : times[j] = TimeOf(s, j) /\ times[j] \in Int
    BY <1>2, <1>4
  <2>3. \A a, b \in 1 .. n : a < b => times[a] < times[b]
    BY <1>2, <2>2
  <2>4. i = BisectRight(times, t)
    OBVIOUS
  <2> HIDE DEF times, n, i
  <2>5. /\ BisectRight(times, t) \in 0 .. n
        /\ \A j \in 1 .. n : times[j] <= t <=> j <= BisectRight(times, t)
    BY <1>3, <2>1, <2>2, <2>3, BisectIs
  <2>6. i \in 0 .. n /\ \A j \in 1 .. n : TimeOf(s, j) <= t <=> j <= i
    BY <2>2, <2>4, <2>5
  <2> QED BY <2>6 DEF n
<1>6. m \in 0 .. Len(k) /\ \A j \in 1 .. Len(k) : TimeOf(k, j) <= t <=> j <= m
  <2> DEFINE times == StatesTimes(k)
             n == Len(k)
  <2>1. n \in Nat /\ DOMAIN times = 1 .. n
    BY <1>1, <1>4
  <2>2. \A j \in 1 .. n : times[j] = TimeOf(k, j) /\ times[j] \in Int
    BY <1>2, <1>4
  <2>3. \A a, b \in 1 .. n : a < b => times[a] < times[b]
    BY <1>2, <2>2
  <2>4. m = BisectRight(times, t)
    OBVIOUS
  <2> HIDE DEF times, n, m
  <2>5. /\ BisectRight(times, t) \in 0 .. n
        /\ \A j \in 1 .. n : times[j] <= t <=> j <= BisectRight(times, t)
    BY <1>3, <2>1, <2>2, <2>3, BisectIs
  <2>6. m \in 0 .. n /\ \A j \in 1 .. n : TimeOf(k, j) <= t <=> j <= m
    BY <2>2, <2>4, <2>5
  <2> QED BY <2>6 DEF n
<1> HIDE DEF i, m, off
<1>7. i = m + off
  <2>1. \A j \in 1 .. Len(k) : j <= m <=> j + off <= i
    BY <1>2, <1>5, <1>6
  <2>2. off > 0 => m >= 1
    <3> SUFFICES ASSUME off > 0 PROVE m >= 1
      OBVIOUS
    <3>1. TimeOf(k, 1) <= TimeOf(s, Len(s)) - Keep
      <4>1. Len(k) < Len(s)
        BY <1>1 DEF off
      <4> QED BY <4>1 DEF KeptOk
    <3>2. TimeOf(k, 1) <= t
      BY <3>1, <1>1, <1>2, <1>3, ContextBounds
    <3> QED BY <3>2, <1>1, <1>6
  <2>3. CASE m = 0
    <3>1. off = 0 /\ ~(1 + off <= i)
      BY <2>1, <2>2, <2>3, <1>1
    <3> QED BY <3>1, <2>3, <1>1, <1>5
  <2>4. CASE m > 0
    <3>1. m \in 1 .. Len(k) /\ m + off <= i
      BY <2>1, <2>4, <1>6
    <3>2. ~(m + off < i)
      <4>1. SUFFICES ASSUME m + off < i PROVE FALSE
        OBVIOUS
      <4>2. m + 1 \in 1 .. Len(k) /\ (m + 1) + off <= i
        BY <4>1, <3>1, <1>1, <1>5, <1>6
      <4> QED BY <4>2, <2>1, <1>6
    <3> QED BY <3>1, <3>2, <1>1, <1>5
  <2> QED BY <2>3, <2>4, <1>6
<1>8. LagState(k, t) = IF m > 0 /\ k[m].segment = k[Len(k)].segment /\ t - TimeOf(k, m) <= MaxGap
                       THEN k[m].state ELSE NoState
  <2>1. Last(k) = k[Len(k)]
    BY DEF Last
  <2>2. m = BisectRight(TimesOf(k), t)
    BY DEF m, StatesTimes, TimesOf
  <2> QED BY <2>1, <2>2 DEF LagState, TimeOf
<1>9. AgoIn(s, lag) = IF /\ i > 0
                         /\ t - TimeOf(s, i) <= MaxGap
                         /\ \A j \in i + 1 .. Len(s) : TimeOf(s, j) - TimeOf(s, j - 1) <= MaxGap
                      THEN s[i].state
                      ELSE NoState
  BY DEF AgoIn, t, i
<1>10. CASE m = 0
  <2>1. i = 0
    <3>1. ~(off > 0)
      <4>1. SUFFICES ASSUME off > 0 PROVE FALSE
        OBVIOUS
      <4>2. TimeOf(k, 1) <= TimeOf(s, Len(s)) - Keep
        <5>1. Len(k) < Len(s)
          BY <4>1, <1>1 DEF off
        <5> QED BY <5>1 DEF KeptOk
      <4>3. TimeOf(k, 1) <= t
        BY <4>2, <1>1, <1>2, <1>3, ContextBounds
      <4> QED BY <4>3, <1>1, <1>6, <1>10
    <3> QED BY <3>1, <1>1, <1>7, <1>10
  <2> QED BY <2>1, <1>8, <1>9, <1>10 DEF t
<1>11. CASE m > 0
  <2>1. m \in 1 .. Len(k) /\ i > 0
    BY <1>1, <1>6, <1>7, <1>11
  <2>2. TimeOf(k, m) = TimeOf(s, i) /\ k[m].state = s[i].state
    <3>1. k[m].state = s[m + (Len(s) - Len(k))].state
      BY <2>1 DEF KeptOk
    <3> QED BY <3>1, <2>1, <1>2, <1>7 DEF off
  <2>3. k[m].segment = k[Len(k)].segment <=> \A j \in m .. Len(k) - 1 : ~IsGap(k, j)
    BY <2>1, SegmentsAgree
  <2>4. ASSUME NEW j \in m .. Len(k) - 1
        PROVE  /\ (j + 1) + off \in i + 1 .. Len(s)
               /\ ~IsGap(k, j) <=> TimeOf(s, (j + 1) + off) - TimeOf(s, ((j + 1) + off) - 1) <= MaxGap
    <3>1. /\ j \in 1 .. Len(k) /\ j + 1 \in 1 .. Len(k) /\ ((j + 1) + off) - 1 = j + off
          /\ (j + 1) + off \in i + 1 .. Len(s)
      BY <2>1, <1>1, <1>7
    <3>2. /\ TimeOf(k, j) = TimeOf(s, j + off) /\ TimeOf(k, j + 1) = TimeOf(s, (j + 1) + off)
          /\ TimeOf(k, j) \in Int /\ TimeOf(k, j + 1) \in Int
      BY <3>1, <1>2
    <3> QED BY <3>1, <3>2, ContextBounds DEF IsGap
  <2>5. (\A j \in m .. Len(k) - 1 : ~IsGap(k, j))
        <=> \A j \in i + 1 .. Len(s) : TimeOf(s, j) - TimeOf(s, j - 1) <= MaxGap
    <3>1. \A j \in i + 1 .. Len(s) :
             (j - off) - 1 \in m .. Len(k) - 1 /\ (((j - off) - 1) + 1) + off = j
      BY <2>1, <1>1, <1>7
    <3>2. ASSUME NEW j \in i + 1 .. Len(s), \A a \in m .. Len(k) - 1 : ~IsGap(k, a)
          PROVE  TimeOf(s, j) - TimeOf(s, j - 1) <= MaxGap
      <4> DEFINE a == (j - off) - 1
      <4>1. a \in m .. Len(k) - 1 /\ (a + 1) + off = j
        BY <3>1
      <4> HIDE DEF a
      <4>2. ~IsGap(k, a)
        BY <4>1, <3>2
      <4> QED BY <4>1, <4>2, <2>4
    <3>3. ASSUME NEW a \in m .. Len(k) - 1,
                 \A j \in i + 1 .. Len(s) : TimeOf(s, j) - TimeOf(s, j - 1) <= MaxGap
          PROVE  ~IsGap(k, a)
      BY <3>3, <2>4
    <3> QED BY <3>2, <3>3
  <2> QED BY <2>1, <2>2, <2>3, <2>5, <1>8, <1>9, <1>11 DEF t
<1> QED BY <1>6, <1>10, <1>11

ReturnAt(s, i, f, p) == SignedReturn(s[i].state.mid, f, p.direction)

(* The evaluations of the present position p begin at b.                   *)
Begins(s, p, b) ==
    /\ b \in 1 .. Len(s)
    /\ \A i \in b .. Len(s) : s[i].position.entry = p.entry
    /\ b > 1 => s[b - 1].position.entry # p.entry

(* hi and lo are the best and the worst return from b on, or 0.            *)
Extremes(s, p, b, f, hi, lo) ==
    /\ hi \in Int /\ lo \in Int /\ hi >= 0 /\ lo <= 0
    /\ \A i \in b .. Len(s) : /\ ReturnAt(s, i, f, p) \in Int
                              /\ lo <= ReturnAt(s, i, f, p) /\ ReturnAt(s, i, f, p) <= hi
    /\ hi = 0 \/ \E i \in b .. Len(s) : hi = ReturnAt(s, i, f, p)
    /\ lo = 0 \/ \E i \in b .. Len(s) : lo = ReturnAt(s, i, f, p)

Followed(s, p, e, f, hi, lo) ==
    /\ e = p.entry
    /\ Len(s) = 0 => p = NoPosition
    /\ Len(s) > 0 => p = s[Len(s)].position
    /\ p # NoPosition => /\ p \in RealPositions /\ p.entry <= TimeOf(s, Len(s)) /\ f \in Int
                         /\ \E b : /\ Begins(s, p, b) /\ f = s[b].position.price
                                   /\ Extremes(s, p, b, f, hi, lo)

LEMMA ReturnIsInt == \A x, y \in Int, d \in {1, -1} : SignedReturn(x, y, d) \in Int
<1> TAKE x, y \in Int, d \in {1, -1}
<1>1. CASE d = 1
  BY <1>1 DEF SignedReturn
<1>2. CASE d = -1
  BY <1>2 DEF SignedReturn
<1> QED BY <1>1, <1>2

LEMMA RealIsNot ==
    /\ NoPosition \notin RealPositions /\ NoPosition.entry = 0
    /\ \A p \in RealPositions : /\ p.entry \in Nat /\ p.entry > 0
                                /\ p.direction \in {1, -1} /\ p.price \in Int
<1>1. NoPosition.entry = 0
  BY DEF NoPosition
<1>2. \A p \in RealPositions : /\ p.entry \in Nat /\ p.entry # 0
                               /\ p.direction \in {1, -1} /\ p.price \in Int
  BY DEF RealPositions
<1> QED BY <1>1, <1>2

Grown(s, s2, st, p) ==
    /\ Len(s2) = Len(s) + 1 /\ Len(s) \in Nat
    /\ \A i \in 1 .. Len(s) : s2[i] = s[i]
    /\ s2[Len(s2)].state = st /\ s2[Len(s2)].position = p

(* A position that goes on, possibly scaled.                               *)
LEMMA GoesOn ==
    ASSUME NEW s, SeenOk(s), NEW st, IsState(st), NEW p \in RealPositions, NEW q, NEW e, NEW f,
           NEW hi, NEW lo, Followed(s, q, e, f, hi, lo), p.entry = e, p.entry <= st.timestamp,
           q # NoPosition, p.direction = q.direction,
           NEW s2, Grown(s, s2, st, p),
           NEW r, r = SignedReturn(st.mid, f, p.direction)
    PROVE  Followed(s2, p, p.entry, f, Greater(hi, r), Lesser(lo, r))
<1>1. /\ q \in RealPositions /\ f \in Int /\ e = q.entry
      /\ \E b : /\ Begins(s, q, b) /\ f = s[b].position.price
                /\ Extremes(s, q, b, f, hi, lo)
  BY DEF Followed
<1>2. PICK b : /\ Begins(s, q, b) /\ f = s[b].position.price
               /\ Extremes(s, q, b, f, hi, lo)
  BY <1>1
<1>3. /\ Len(s2) = Len(s) + 1 /\ Len(s) \in Nat
      /\ \A i \in 1 .. Len(s) : s2[i] = s[i]
      /\ s2[Len(s) + 1].state = st /\ s2[Len(s) + 1].position = p
  BY DEF Grown
<1>4. b \in 1 .. Len(s) /\ \A i \in b .. Len(s2) : i \in b .. Len(s) \/ i = Len(s) + 1
  <2>1. b \in 1 .. Len(s)
    BY <1>2 DEF Begins
  <2> QED BY <2>1, <1>3
<1>5. \A i \in b .. Len(s) : i \in 1 .. Len(s) /\ i \in b .. Len(s2)
  BY <1>3, <1>4
<1>6. Len(s) + 1 \in b .. Len(s2) /\ b \in 1 .. Len(s2) /\ (b > 1 => b - 1 \in 1 .. Len(s))
  BY <1>3, <1>4
<1>7. Begins(s2, p, b)
  <2>1. \A i \in b .. Len(s2) : s2[i].position.entry = p.entry
    BY <1>1, <1>2, <1>3, <1>4, <1>5 DEF Begins
  <2>2. b > 1 => s2[b - 1].position.entry # p.entry
    BY <1>1, <1>2, <1>3, <1>6 DEF Begins
  <2> QED BY <2>1, <2>2, <1>6 DEF Begins
<1>8. r \in Int
  BY <1>1, ReturnIsInt, RealIsNot DEF IsState
<1>9. /\ \A i \in b .. Len(s) : ReturnAt(s2, i, f, p) = ReturnAt(s, i, f, q)
      /\ ReturnAt(s2, Len(s) + 1, f, p) = r
  BY <1>3, <1>5 DEF ReturnAt
<1> DEFINE hi2 == Greater(hi, r)
           lo2 == Lesser(lo, r)
<1>10. /\ hi \in Int /\ lo \in Int /\ hi >= 0 /\ lo <= 0
       /\ \A i \in b .. Len(s) : /\ ReturnAt(s, i, f, q) \in Int
                                 /\ lo <= ReturnAt(s, i, f, q) /\ ReturnAt(s, i, f, q) <= hi
       /\ hi = 0 \/ \E i \in b .. Len(s) : hi = ReturnAt(s, i, f, q)
       /\ lo = 0 \/ \E i \in b .. Len(s) : lo = ReturnAt(s, i, f, q)
  BY <1>2 DEF Extremes
<1>11. /\ hi2 \in Int /\ lo2 \in Int /\ hi2 >= hi /\ hi2 >= r /\ lo2 <= lo /\ lo2 <= r
       /\ hi2 = hi \/ hi2 = r
       /\ lo2 = lo \/ lo2 = r
  BY <1>8, <1>10 DEF Greater, Lesser
<1> HIDE DEF hi2, lo2
<1>12. Extremes(s2, p, b, f, hi2, lo2)
  <2>1. hi2 >= 0 /\ lo2 <= 0
    BY <1>10, <1>11
  <2>2. ASSUME NEW i \in b .. Len(s2)
        PROVE  /\ ReturnAt(s2, i, f, p) \in Int
               /\ lo2 <= ReturnAt(s2, i, f, p) /\ ReturnAt(s2, i, f, p) <= hi2
    <3>1. CASE i \in b .. Len(s)
      <4>1. /\ ReturnAt(s2, i, f, p) \in Int
            /\ lo <= ReturnAt(s2, i, f, p) /\ ReturnAt(s2, i, f, p) <= hi
        BY <3>1, <1>9, <1>10
      <4> QED BY <4>1, <1>10, <1>11
    <3>2. CASE i = Len(s) + 1
      BY <3>2, <1>8, <1>9, <1>11
    <3> QED BY <3>1, <3>2, <1>4
  <2>3. hi2 = 0 \/ \E i \in b .. Len(s2) : hi2 = ReturnAt(s2, i, f, p)
    <3>1. CASE hi2 = r
      BY <3>1, <1>6, <1>9
    <3>2. CASE hi2 = hi
      BY <3>2, <1>5, <1>9, <1>10
    <3> QED BY <3>1, <3>2, <1>11
  <2>4. lo2 = 0 \/ \E i \in b .. Len(s2) : lo2 = ReturnAt(s2, i, f, p)
    <3>1. CASE lo2 = r
      BY <3>1, <1>6, <1>9
    <3>2. CASE lo2 = lo
      BY <3>2, <1>5, <1>9, <1>10
    <3> QED BY <3>1, <3>2, <1>11
  <2> QED BY <2>1, <2>2, <2>3, <2>4, <1>11 DEF Extremes
<1>13. f = s2[b].position.price
  BY <1>2, <1>3, <1>4
<1>14. /\ Len(s2) > 0 /\ Len(s2) # 0 /\ p = s2[Len(s2)].position
       /\ TimeOf(s2, Len(s2)) = st.timestamp
  BY <1>3 DEF TimeOf
<1>15. Followed(s2, p, p.entry, f, hi2, lo2)
  BY <1>1, <1>7, <1>12, <1>13, <1>14 DEF Followed
<1> QED BY <1>15 DEF hi2, lo2

(* A new position, entered now.                                            *)
LEMMA Enters ==
    ASSUME NEW s, SeenOk(s), NEW st, IsState(st), NEW p \in RealPositions, NEW q, NEW e, NEW f,
           NEW hi, NEW lo, Followed(s, q, e, f, hi, lo), p.entry # e, p.entry <= st.timestamp,
           NEW s2, Grown(s, s2, st, p),
           NEW r, r = SignedReturn(st.mid, p.price, p.direction)
    PROVE  Followed(s2, p, p.entry, p.price, Greater(0, r), Lesser(0, r))
<1> DEFINE b == Len(s) + 1
<1>1. /\ Len(s2) = b /\ Len(s) \in Nat /\ b \in 1 .. Len(s2) /\ Len(s2) > 0
      /\ \A i \in 1 .. Len(s) : s2[i] = s[i]
      /\ s2[b].state = st /\ s2[b].position = p
      /\ b > 1 => Len(s) > 0 /\ b - 1 = Len(s) /\ Len(s) \in 1 .. Len(s)
      /\ b .. Len(s2) = {b}
  BY DEF Grown
<1> HIDE DEF b
<1>2. Begins(s2, p, b)
  <2>1. b > 1 => s2[b - 1].position.entry # p.entry
    BY <1>1 DEF Followed
  <2> QED BY <2>1, <1>1 DEF Begins
<1>3. r \in Int
  BY ReturnIsInt, RealIsNot DEF IsState
<1>4. ReturnAt(s2, b, p.price, p) = r
  BY <1>1 DEF ReturnAt
<1>5. Extremes(s2, p, b, p.price, Greater(0, r), Lesser(0, r))
  BY <1>1, <1>3, <1>4 DEF Extremes, Greater, Lesser
<1>6. TimeOf(s2, Len(s2)) = st.timestamp /\ p.price = s2[b].position.price /\ p.price \in Int
  BY <1>1, RealIsNot DEF TimeOf
<1> QED BY <1>1, <1>2, <1>5, <1>6 DEF Followed

(* The positions an evaluation can meet, given the one before.             *)
MayFollow(q, st, p) ==
    \/ p = q
    \/ p = NoPosition
    \/ q # NoPosition /\ p = [q EXCEPT !.price = st.mid]
    \/ \E d \in {1, -1} : p = [entry |-> st.timestamp, direction |-> d, price |-> st.mid]

LEMMA FollowedNext ==
    ASSUME NEW s, SeenOk(s), NEW st, IsState(st), NEW p, NEW q, NEW e, NEW f,
           NEW hi, NEW lo, Followed(s, q, e, f, hi, lo),
           \A i \in 1 .. Len(s) : TimeOf(s, i) < st.timestamp,
           MayFollow(q, st, p), NEW s2, Grown(s, s2, st, p), p # NoPosition
    PROVE  /\ p \in RealPositions
           /\ p.entry # e =>
                LET r == SignedReturn(st.mid, p.price, p.direction)
                IN Followed(s2, p, p.entry, p.price, Greater(0, r), Lesser(0, r))
           /\ p.entry = e =>
                LET r == SignedReturn(st.mid, f, p.direction)
                IN Followed(s2, p, p.entry, f, Greater(hi, r), Lesser(lo, r))
<1>1. st.timestamp \in Nat /\ st.timestamp >= 1 /\ st.mid \in Int
  BY DEF IsState
<1>2. q # NoPosition => /\ q \in RealPositions /\ q.entry = e /\ q.entry < st.timestamp
  <2> SUFFICES ASSUME q # NoPosition PROVE q \in RealPositions /\ q.entry = e /\ q.entry < st.timestamp
    OBVIOUS
  <2>1. q \in RealPositions /\ q.entry = e /\ q.entry <= TimeOf(s, Len(s)) /\ Len(s) # 0
    BY DEF Followed
  <2>2. Len(s) \in 1 .. Len(s)
    BY <2>1 DEF Grown
  <2>3. TimeOf(s, Len(s)) < st.timestamp /\ TimeOf(s, Len(s)) \in Int
    BY <2>2 DEF SeenOk, IsState, TimeOf
  <2> QED BY <2>1, <2>3, <1>1, RealIsNot
<1>3. /\ p \in RealPositions /\ p.entry <= st.timestamp
      /\ p.entry = e => q # NoPosition /\ p.direction = q.direction
  <2>1. CASE p = q
    BY <2>1, <1>1, <1>2, RealIsNot
  <2>2. CASE q # NoPosition /\ p = [q EXCEPT !.price = st.mid]
    <3>1. q \in RealPositions /\ q.entry = e /\ q.entry < st.timestamp
      BY <2>2, <1>2
    <3>2. p \in RealPositions /\ p.entry = q.entry /\ p.direction = q.direction
      BY <2>2, <3>1, <1>1 DEF RealPositions
    <3> QED BY <2>2, <3>1, <3>2, <1>1, RealIsNot
  <2>3. CASE \E d \in {1, -1} : p = [entry |-> st.timestamp, direction |-> d, price |-> st.mid]
    <3>1. p \in RealPositions /\ p.entry = st.timestamp
      BY <2>3, <1>1 DEF RealPositions
    <3>2. p.entry # e
      <4>1. CASE q = NoPosition
        <5>1. e = 0
          BY <4>1, RealIsNot DEF Followed
        <5> QED BY <5>1, <3>1, <1>1
      <4>2. CASE q # NoPosition
        BY <4>2, <1>1, <1>2, <3>1, RealIsNot
      <4> QED BY <4>1, <4>2
    <3> QED BY <3>1, <3>2, <1>1
  <2> QED BY <2>1, <2>2, <2>3 DEF MayFollow
<1>4. ASSUME p.entry # e
      PROVE  LET r == SignedReturn(st.mid, p.price, p.direction)
             IN Followed(s2, p, p.entry, p.price, Greater(0, r), Lesser(0, r))
  BY <1>3, <1>4, Enters
<1>5. ASSUME p.entry = e
      PROVE  LET r == SignedReturn(st.mid, f, p.direction)
             IN Followed(s2, p, p.entry, f, Greater(hi, r), Lesser(lo, r))
  BY <1>3, <1>5, GoesOn
<1> QED BY <1>3, <1>4, <1>5

(* When nothing is held.                                                   *)
LEMMA FollowedNone ==
    ASSUME NEW s, NEW st, NEW s2, Grown(s, s2, st, NoPosition), NEW f, NEW hi, NEW lo
    PROVE  Followed(s2, NoPosition, 0, f, hi, lo)
<1>1. Len(s2) > 0 /\ s2[Len(s2)].position = NoPosition
  BY DEF Grown
<1> QED BY <1>1, RealIsNot DEF Followed

-----------------------------------------------------------------------------
(***************************************************************************)
(* The recording, the load and the evaluations together.                   *)
(***************************************************************************)

(* All that was seen lies before t.                                        *)
Later(s, t) == \A i \in 1 .. Len(s) : TimeOf(s, i) < t

LEMMA NothingSeen ==
    /\ SeenOk(<<>>) /\ KeptOk(<<>>, <<>>, 0) /\ Followed(<<>>, NoPosition, 0, 0, 0, 0)
    /\ \A t : Later(<<>>, t)
<1>1. IsSequence(<<>>) /\ Len(<<>>) = 0 /\ \A i \in 1 .. Len(<<>>) : FALSE
  BY EmptySequence
<1>2. SeenOk(<<>>) /\ \A t : Later(<<>>, t)
  BY <1>1 DEF SeenOk, Later
<1>3. KeptOk(<<>>, <<>>, 0)
  <2>1. \A i \in 1 .. Len(<<>>) - 1 : FALSE
    BY <1>1
  <2> QED BY <1>1, <2>1 DEF KeptOk
<1>4. Followed(<<>>, NoPosition, 0, 0, 0, 0)
  BY <1>1, RealIsNot DEF Followed
<1> QED BY <1>2, <1>3, <1>4

(* _append keeps what is needed.                                           *)
LEMMA AppendedKept ==
    ASSUME NEW s, SeenOk(s), KeptOk(s, states, segment), NEW st, IsState(st),
           Later(s, st.timestamp), NEW s2, SeenOk(s2), NEW p, Grown(s, s2, st, p)
    PROVE  KeptOk(s2, Appended(st), Last(Appended(st)).segment)
<1> DEFINE g2 == IF Gap(st) THEN segment + 1 ELSE segment
           all == Append(states, [state |-> st, segment |-> g2])
           cut == st.timestamp - Keep
           last == BisectRight(TimesOf(all), cut)
           kept == IF last > 1 THEN SubSeq(all, last, Len(all)) ELSE all
<1>1. Appended(st) = kept
  BY DEF Appended
<1>2. /\ Len(s2) = Len(s) + 1 /\ s2[Len(s2)].state = st /\ Len(s) \in Nat
      /\ \A i \in 1 .. Len(s) : s2[i] = s[i] /\ TimeOf(s, i) < st.timestamp
      /\ Len(s2) > 0 /\ TimeOf(s2, Len(s2)) = st.timestamp
  BY DEF Grown, Later, TimeOf
<1>3. g2 = IF states # <<>> /\ st.timestamp - TimeOf(states, Len(states)) > MaxGap
           THEN segment + 1 ELSE segment
  BY DEF Gap, Last, TimeOf
<1> HIDE DEF g2
<1>4. KeptOk(s2, all, g2)
  BY <1>2, <1>3, KeptGrows
<1> HIDE DEF all
<1>5. /\ IsSequence(all) /\ Len(all) \in Nat /\ DOMAIN all = 1 .. Len(all) /\ Len(all) > 0
      /\ \A i \in 1 .. Len(all) : TimeOf(all, i) \in Int
      /\ \A i, j \in 1 .. Len(all) : i < j => TimeOf(all, i) < TimeOf(all, j)
  <2>1. IsSequence(all) /\ Len(all) > 0
    BY <1>2, <1>4 DEF KeptOk
  <2> QED BY <2>1, <1>4, KeptTimes, SequenceIs
<1>6. last \in 0 .. Len(all) /\ \A i \in 1 .. Len(all) : TimeOf(all, i) <= cut <=> i <= last
  <2> DEFINE times == TimesOf(all)
             n == Len(all)
  <2>1. n \in Nat /\ DOMAIN times = 1 .. n
    BY <1>5 DEF TimesOf
  <2>2. \A j \in 1 .. n : times[j] = TimeOf(all, j) /\ times[j] \in Int
    BY <1>5 DEF TimesOf, TimeOf
  <2>3. \A a, b \in 1 .. n : a < b => times[a] < times[b]
    BY <1>5, <2>2
  <2>4. last = BisectRight(times, cut) /\ cut \in Int
    BY ContextBounds DEF IsState
  <2> HIDE DEF times, n, last, cut
  <2>5. /\ BisectRight(times, cut) \in 0 .. n
        /\ \A j \in 1 .. n : times[j] <= cut <=> j <= BisectRight(times, cut)
    BY <2>1, <2>2, <2>3, <2>4, BisectIs
  <2>6. last \in 0 .. n /\ \A j \in 1 .. n : TimeOf(all, j) <= cut <=> j <= last
    BY <2>2, <2>4, <2>5
  <2> QED BY <2>6 DEF n
<1> HIDE DEF last
<1>7. KeptOk(s2, kept, g2)
  <2>1. CASE last > 1
    <3>1. last \in 1 .. Len(all) /\ TimeOf(all, last) <= TimeOf(s2, Len(s2)) - Keep
      BY <2>1, <1>2, <1>5, <1>6
    <3>2. KeptOk(s2, SubSeq(all, last, Len(all)), g2)
      BY <2>1, <3>1, <1>4, KeptTrims
    <3> QED BY <2>1, <3>2
  <2>2. CASE ~(last > 1)
    BY <2>2, <1>4
  <2> QED BY <2>1, <2>2
<1> HIDE DEF kept
<1>8. Last(kept).segment = g2
  BY <1>2, <1>7 DEF KeptOk, Last
<1> QED BY <1>1, <1>7, <1>8

(* The loaded snapshots ascend, within the ticks there were.               *)
BooksOk(times) ==
    /\ Len(times) \in Nat /\ DOMAIN times = 1 .. Len(times)
    /\ \A i \in 1 .. Len(times) : times[i] \in 1 .. MaxTime
    /\ \A i, j \in 1 .. Len(times) : i < j => times[i] < times[j]

LEMMA StateBuilt ==
    ASSUME NEW b, BooksOk(b), NEW c, NEW t \in Int, BuildState(b, c, t) # NoState
    PROVE  BuildState(b, c, t).timestamp = t /\ BuildState(b, c, t).mid \in Int
<1> DEFINE i == BisectRight(b, t)
<1>1. /\ \A lag \in ReturnLags \union {0} : HasSnapshot(b, t - lag)
      /\ BuildState(b, c, t).timestamp = t
      /\ BuildState(b, c, t).mid = Mid[LatestSnapshot(b, t)]
  BY DEF BuildState
<1>2. HasSnapshot(b, t)
  BY <1>1
<1>3. i > 0 /\ LatestSnapshot(b, t) = b[i]
  BY <1>2 DEF HasSnapshot, LatestSnapshot
<1>4. i \in 0 .. Len(b)
  <2> DEFINE n == Len(b)
  <2>1. /\ n \in Nat /\ DOMAIN b = 1 .. n /\ \A j \in 1 .. n : b[j] \in Int
        /\ \A j, k \in 1 .. n : j < k => b[j] < b[k]
    BY DEF BooksOk
  <2> HIDE DEF n
  <2>2. BisectRight(b, t) \in 0 .. n
    BY <2>1, BisectIs
  <2> QED BY <2>2 DEF n
<1> HIDE DEF i
<1>5. i \in 1 .. Len(b)
  BY <1>3, <1>4 DEF BooksOk
<1>6. b[i] \in 1 .. MaxTime
  BY <1>5 DEF BooksOk
<1> QED BY <1>1, <1>3, <1>6, RecordingAssumption

(* The context is that of the last state and the present position.         *)
ContextOk(c, s, k, p, hi, lo) ==
    c # NoContext =>
       /\ p # NoPosition /\ Len(s) > 0
       /\ c.timestamp = TimeOf(s, Len(s)) /\ c.mfe = hi /\ c.mae = lo
       /\ \A lag \in Lags : c.lagged[lag] = LagState(k, TimeOf(s, Len(s)) - lag)

RecordingInv ==
    /\ RecorderInv
    /\ BooksOk(books)
    /\ next \in Nat /\ next >= 1
    /\ phase = "recording" => seen = <<>>
    /\ SeenOk(seen)
    /\ \A j \in 1 .. Len(books) : j >= next => Later(seen, books[j])
    /\ KeptOk(seen, states, segment)
    /\ Followed(seen, position, entry, first, mfe, mae)
    /\ ContextOk(context, seen, states, position, mfe, mae)

LEMMA RecordingInitHolds == RecordingInit => RecordingInv
<1> SUFFICES ASSUME RecordingInit PROVE RecordingInv
  OBVIOUS
<1>1. /\ RecorderInv /\ books = <<>> /\ next = 1 /\ position = NoPosition /\ seen = <<>>
      /\ states = <<>> /\ segment = 0 /\ entry = 0 /\ first = 0 /\ mfe = 0 /\ mae = 0
      /\ context = NoContext
  BY RecorderInitHolds DEF RecordingInit, ContextInit
<1>2. BooksOk(<<>>)
  BY DEF BooksOk
<1>3. ContextOk(NoContext, <<>>, <<>>, NoPosition, 0, 0)
  BY DEF ContextOk
<1> QED BY <1>1, <1>2, <1>3, NothingSeen DEF RecordingInv

LEMMA RecordHolds ==
    ASSUME RecordingInv, Record
    PROVE  RecordingInv'
<1>1. RecorderInv /\ (OnTick \/ Trade \/ Kill)
  BY DEF RecordingInv, Record
<1>2. RecorderInv'
  BY <1>1, OnTickHolds, TradeHolds, KillHolds
<1>3. /\ UNCHANGED <<states, segment, entry, first, mfe, mae, context>>
      /\ UNCHANGED phase /\ UNCHANGED <<books, trades, next, position, seen>>
  BY DEF Record, contextVars, replayVars
<1> QED BY <1>2, <1>3 DEF RecordingInv

KeysIn(rows) == [i \in DOMAIN rows |-> rows[i].key]

LEMMA LoadedKeys ==
    ASSUME RecorderInv, clock = MaxTime
    PROVE  BooksOk(KeysIn(Loaded(files["books"])))
<1> DEFINE loaded == Loaded(files["books"])
           keys == KeysIn(loaded)
           n == Len(loaded)
<1>1. files["books"] \in Seq(Rows)
  BY TwoStreams DEF RecorderInv, RecorderTypes
<1>2. /\ n \in Nat /\ DOMAIN loaded = 1 .. n
      /\ ToSet(loaded) = LastOfKeys(files["books"])
      /\ LastOfKeys(files["books"]) \subseteq ToSet(files["books"])
      /\ LastOfKeys(files["books"]) \in SUBSET Rows
      /\ \A i, j \in DOMAIN loaded : i < j => loaded[i].key < loaded[j].key
  BY <1>1, LoadedRows, LastRows
<1>3. \A row \in ToSet(files["books"]) : row.key >= 1 /\ row.key <= MaxTime
  BY TwoStreams DEF RecorderInv, Stored
<1> HIDE DEF loaded, n
<1>4. \A i \in 1 .. n : loaded[i] \in ToSet(loaded)
  BY <1>2 DEF ToSet
<1>5. \A i \in 1 .. n : loaded[i].key \in 1 .. MaxTime
  <2>1. \A row \in Rows : row.key \in Int
    BY DEF Rows
  <2> QED BY <2>1, <1>2, <1>3, <1>4, RecorderBounds
<1>6. DOMAIN keys = 1 .. n /\ \A i \in 1 .. n : keys[i] = loaded[i].key
  BY <1>2 DEF KeysIn
<1>7. Len(keys) = n
  BY <1>2, <1>6
<1> HIDE DEF keys
<1>8. BooksOk(keys)
  BY <1>2, <1>5, <1>6, <1>7 DEF BooksOk
<1> QED BY <1>8 DEF keys, loaded

LEMMA LoadHolds ==
    ASSUME RecordingInv, Load
    PROVE  RecordingInv'
<1>1. RecorderInv'
  <2>1. RecorderInit'
    BY DEF Load, RecorderInit
  <2>2. RecorderInit' => RecorderInv'
    BY RecorderInitHolds, PTL
  <2> QED BY <2>1, <2>2
<1>2. /\ phase = "recording" /\ phase' # "recording" /\ clock = MaxTime
      /\ books' = IF LoadRaises THEN <<>> ELSE KeysIn(Loaded(files["books"]))
      /\ UNCHANGED <<states, segment, entry, first, mfe, mae, context>>
      /\ UNCHANGED <<next, position, seen>>
  BY DEF Load, KeysIn, contextVars
<1>3. BooksOk(books')
  <2>1. BooksOk(<<>>)
    BY DEF BooksOk
  <2>2. RecorderInv
    BY DEF RecordingInv
  <2> QED BY <2>1, <2>2, <1>2, LoadedKeys
<1>4. seen = <<>>
  BY <1>2 DEF RecordingInv
<1>5. \A j \in 1 .. Len(books') : j >= next => Later(seen, books'[j])
  BY <1>4, NothingSeen
<1> QED BY <1>1, <1>2, <1>3, <1>5 DEF RecordingInv

(* What an evaluation does with a state.                                   *)
Evaluated(st, p) ==
    /\ position' = p
    /\ BuildContext(st, p)
    /\ seen' = Append(seen, [state |-> st, position |-> p])

LEMMA PositionNext ==
    ASSUME NEW st, NEW p \in Positions(st)
    PROVE  MayFollow(position, st, p)
<1>1. \/ p \in {position, NoPosition}
      \/ p \in (IF position = NoPosition THEN {} ELSE {[position EXCEPT !.price = st.mid]})
      \/ p \in {[entry |-> st.timestamp, direction |-> d, price |-> st.mid] : d \in {1, -1}}
  BY DEF Positions
<1>2. p \in (IF position = NoPosition THEN {} ELSE {[position EXCEPT !.price = st.mid]})
         => position # NoPosition /\ p = [position EXCEPT !.price = st.mid]
  OBVIOUS
<1>3. p \in {[entry |-> st.timestamp, direction |-> d, price |-> st.mid] : d \in {1, -1}}
         => \E d \in {1, -1} : p = [entry |-> st.timestamp, direction |-> d, price |-> st.mid]
  OBVIOUS
<1> QED BY <1>1, <1>2, <1>3 DEF MayFollow

LEMMA ContextBuilt ==
    ASSUME RecordingInv, NEW st, IsState(st), Later(seen, st.timestamp),
           NEW p \in Positions(st), Evaluated(st, p)
    PROVE  /\ SeenOk(seen') /\ Grown(seen, seen', st, p)
           /\ KeptOk(seen', states', segment')
           /\ Followed(seen', position', entry', first', mfe', mae')
           /\ ContextOk(context', seen', states', position', mfe', mae')
<1>1. SeenOk(seen) /\ KeptOk(seen, states, segment)
      /\ Followed(seen, position, entry, first, mfe, mae)
  BY DEF RecordingInv
<1> DEFINE s2 == Append(seen, [state |-> st, position |-> p])
<1>2. /\ seen' = s2 /\ position' = p
  BY DEF Evaluated
<1>3. SeenOk(s2) /\ Grown(seen, s2, st, p) /\ TimeOf(s2, Len(s2)) = st.timestamp
  <2>1. Len(seen) \in Nat
    BY <1>1, SequenceIs DEF SeenOk
  <2>2. \A i \in 1 .. Len(seen) : TimeOf(seen, i) < st.timestamp
    BY DEF Later
  <2>3. /\ SeenOk(s2) /\ Len(s2) = Len(seen) + 1 /\ TimeOf(s2, Len(s2)) = st.timestamp
        /\ \A i \in 1 .. Len(seen) : s2[i] = seen[i]
        /\ s2[Len(s2)].state = st /\ s2[Len(s2)].position = p
    BY <1>1, <2>2, SeenGrows
  <2> HIDE DEF s2
  <2> QED BY <2>1, <2>3 DEF Grown
<1> HIDE DEF s2
<1>4. KeptOk(s2, Appended(st), Last(Appended(st)).segment)
  BY <1>1, <1>3, AppendedKept
<1>5. states' = Appended(st) /\ segment' = Last(Appended(st)).segment
  BY DEF Evaluated, BuildContext
<1> DEFINE isNew == entry # p.entry
           initial == IF isNew THEN p.price ELSE first
           return == SignedReturn(st.mid, initial, p.direction)
<1>6. p = NoPosition => entry' = 0 /\ first' = 0 /\ mfe' = 0 /\ mae' = 0 /\ context' = NoContext
  BY DEF Evaluated, BuildContext
<1>7. p # NoPosition =>
        /\ entry' = p.entry /\ first' = initial
        /\ mfe' = Greater(IF isNew THEN 0 ELSE mfe, return)
        /\ mae' = Lesser(IF isNew THEN 0 ELSE mae, return)
        /\ context'.timestamp = st.timestamp
        /\ context'.mfe = mfe' /\ context'.mae = mae'
        /\ \A lag \in Lags : context'.lagged[lag] = LagState(states', st.timestamp - lag)
  <2> SUFFICES ASSUME p # NoPosition
               PROVE  /\ entry' = p.entry /\ first' = initial
                      /\ mfe' = Greater(IF isNew THEN 0 ELSE mfe, return)
                      /\ mae' = Lesser(IF isNew THEN 0 ELSE mae, return)
                      /\ context'.timestamp = st.timestamp
                      /\ context'.mfe = mfe' /\ context'.mae = mae'
                      /\ \A lag \in Lags : context'.lagged[lag] = LagState(states', st.timestamp - lag)
    OBVIOUS
  <2>1. /\ entry' = p.entry /\ first' = initial
        /\ mfe' = Greater(IF isNew THEN 0 ELSE mfe, return)
        /\ mae' = Lesser(IF isNew THEN 0 ELSE mae, return)
        /\ context' = [timestamp |-> st.timestamp,
                       holding   |-> st.timestamp - p.entry,
                       average   |-> SignedReturn(st.mid, p.price, p.direction),
                       mfe       |-> mfe',
                       mae       |-> mae',
                       lagged    |-> [lag \in Lags |->
                                        LagState(Appended(st), st.timestamp - lag)]]
    BY DEF Evaluated, BuildContext
  <2> HIDE DEF isNew, initial, return
  <2> QED BY <2>1, <1>5
<1>8. Followed(s2, p, entry', first', mfe', mae')
  <2>1. CASE p = NoPosition
    BY <2>1, <1>3, <1>6, FollowedNone
  <2>2. CASE p # NoPosition
    <3>1. MayFollow(position, st, p)
      BY PositionNext
    <3>2. \A i \in 1 .. Len(seen) : TimeOf(seen, i) < st.timestamp
      BY DEF Later
    <3>3. /\ p.entry # entry =>
                LET r == SignedReturn(st.mid, p.price, p.direction)
                IN Followed(s2, p, p.entry, p.price, Greater(0, r), Lesser(0, r))
          /\ p.entry = entry =>
                LET r == SignedReturn(st.mid, first, p.direction)
                IN Followed(s2, p, p.entry, first, Greater(mfe, r), Lesser(mae, r))
      BY <2>2, <1>1, <1>3, <3>1, <3>2, FollowedNext
    <3>4. CASE p.entry # entry
      <4>1. /\ entry' = p.entry /\ first' = p.price
            /\ mfe' = Greater(0, SignedReturn(st.mid, p.price, p.direction))
            /\ mae' = Lesser(0, SignedReturn(st.mid, p.price, p.direction))
        BY <2>2, <3>4, <1>7
      <4> QED BY <4>1, <3>3, <3>4
    <3>5. CASE p.entry = entry
      <4>1. /\ entry' = p.entry /\ first' = first
            /\ mfe' = Greater(mfe, SignedReturn(st.mid, first, p.direction))
            /\ mae' = Lesser(mae, SignedReturn(st.mid, first, p.direction))
        BY <2>2, <3>5, <1>7
      <4> QED BY <4>1, <3>3, <3>5
    <3> QED BY <3>4, <3>5
  <2> QED BY <2>1, <2>2
<1> HIDE DEF isNew, initial, return
<1>9. ContextOk(context', s2, states', p, mfe', mae')
  <2>1. CASE p = NoPosition
    BY <2>1, <1>6 DEF ContextOk
  <2>2. CASE p # NoPosition
    <3>1. Len(s2) > 0
      BY <1>3 DEF Grown
    <3> QED BY <2>2, <3>1, <1>3, <1>7 DEF ContextOk
  <2> QED BY <2>1, <2>2
<1> QED BY <1>2, <1>3, <1>4, <1>5, <1>8, <1>9

LEMMA EvaluateHolds ==
    ASSUME RecordingInv, Evaluate
    PROVE  RecordingInv'
<1> DEFINE st == BuildState(books, trades, books[next])
<1>1. /\ phase = "replaying" /\ phase' = phase /\ next <= Len(books) /\ next' = next + 1
      /\ UNCHANGED recorderVars /\ UNCHANGED <<books, trades>>
      /\ IF st = NoState
         THEN UNCHANGED contextVars /\ UNCHANGED <<position, seen>>
         ELSE \E p \in Positions(st) : Evaluated(st, p)
  BY DEF Evaluate, Evaluated
<1> HIDE DEF st
<1>2. /\ RecorderInv /\ BooksOk(books) /\ next \in Nat /\ next >= 1 /\ SeenOk(seen)
      /\ \A j \in 1 .. Len(books) : j >= next => Later(seen, books[j])
  BY DEF RecordingInv
<1>3. RecorderInv'
  BY <1>1, <1>2 DEF recorderVars, RecorderInv, RecorderTypes, Stored
<1>4. BooksOk(books') /\ next' \in Nat /\ next' >= 1 /\ phase' # "recording" /\ books' = books
  BY <1>1, <1>2
<1>5. /\ next \in 1 .. Len(books) /\ books[next] \in Int /\ books[next] >= 1
      /\ \A j \in 1 .. Len(books) : j >= next + 1 =>
            /\ j >= next /\ books[next] < books[j] /\ books[j] \in Int
  <2>1. Len(books) \in Nat /\ next \in 1 .. Len(books)
    BY <1>1, <1>2 DEF BooksOk
  <2>2. books[next] \in 1 .. MaxTime
    BY <2>1, <1>2 DEF BooksOk
  <2>3. \A j \in 1 .. Len(books) : j >= next + 1 => books[next] < books[j] /\ books[j] \in 1 .. MaxTime
    BY <2>1, <1>2 DEF BooksOk
  <2> QED BY <2>1, <2>2, <2>3
<1>6. CASE st = NoState
  <2>1. /\ UNCHANGED <<states, segment, entry, first, mfe, mae, context>>
        /\ UNCHANGED <<position, seen>>
    BY <1>1, <1>6 DEF contextVars
  <2>2. /\ KeptOk(seen, states, segment) /\ Followed(seen, position, entry, first, mfe, mae)
        /\ ContextOk(context, seen, states, position, mfe, mae)
    BY DEF RecordingInv
  <2>3. \A j \in 1 .. Len(books') : j >= next' => Later(seen', books'[j])
    BY <1>1, <1>2, <1>5, <2>1
  <2> QED BY <2>1, <2>2, <2>3, <1>2, <1>3, <1>4 DEF RecordingInv
<1>7. CASE st # NoState
  <2>1. PICK p \in Positions(st) : Evaluated(st, p)
    BY <1>1, <1>7
  <2>2. st.timestamp = books[next] /\ st.mid \in Int
    <3>1. BuildState(books, trades, books[next]) # NoState
      BY <1>7 DEF st
    <3> QED BY <3>1, <1>2, <1>5, StateBuilt DEF st
  <2>3. IsState(st) /\ Later(seen, st.timestamp)
    <3>1. Later(seen, books[next])
      BY <1>2, <1>5
    <3> QED BY <3>1, <2>2, <1>5 DEF IsState
  <2>4. /\ SeenOk(seen') /\ Grown(seen, seen', st, p)
        /\ KeptOk(seen', states', segment')
        /\ Followed(seen', position', entry', first', mfe', mae')
        /\ ContextOk(context', seen', states', position', mfe', mae')
    BY <2>1, <2>3, ContextBuilt
  <2>5. \A j \in 1 .. Len(books') : j >= next' => Later(seen', books'[j])
    <3> SUFFICES ASSUME NEW j \in 1 .. Len(books), j >= next + 1 PROVE Later(seen', books[j])
      BY <1>1
    <3>1. Later(seen, books[j]) /\ books[next] < books[j]
      BY <1>2, <1>5
    <3>2. \A i \in 1 .. Len(seen') : i \in 1 .. Len(seen) \/ i = Len(seen')
      BY <2>4 DEF Grown
    <3>3. /\ \A i \in 1 .. Len(seen) : TimeOf(seen', i) = TimeOf(seen, i)
          /\ TimeOf(seen', Len(seen')) = books[next]
      BY <2>2, <2>4 DEF Grown, TimeOf
    <3> QED BY <3>1, <3>2, <3>3 DEF Later
  <2> QED BY <2>4, <2>5, <1>3, <1>4 DEF RecordingInv
<1> QED BY <1>6, <1>7

LEMMA RecordingStutters ==
    ASSUME RecordingInv, UNCHANGED recordingVars
    PROVE  RecordingInv'
<1>1. /\ UNCHANGED recorderVars /\ UNCHANGED contextVars /\ UNCHANGED phase
      /\ UNCHANGED <<books, trades, next, position, seen>>
  BY DEF recordingVars, replayVars
<1>2. RecorderInv'
  <2>1. RecorderInv
    BY DEF RecordingInv
  <2> QED BY <2>1, <1>1 DEF recorderVars, RecorderInv, RecorderTypes, Stored
<1>3. UNCHANGED <<states, segment, entry, first, mfe, mae, context>>
  BY <1>1 DEF contextVars
<1> QED BY <1>1, <1>2, <1>3 DEF RecordingInv

(* What the recorder, the loaded snapshots and the position context keep   *)
(* true at every step.                                                     *)
THEOREM RecordingIsInvariant == RecordingSpec => []RecordingInv
<1>1. RecordingInit => RecordingInv
  BY RecordingInitHolds
<1>2. RecordingInv /\ [RecordingNext]_recordingVars => RecordingInv'
  <2> SUFFICES ASSUME RecordingInv, [RecordingNext]_recordingVars PROVE RecordingInv'
    OBVIOUS
  <2>1. CASE Record
    BY <2>1, RecordHolds
  <2>2. CASE Load
    BY <2>2, LoadHolds
  <2>3. CASE Evaluate
    BY <2>3, EvaluateHolds
  <2>4. CASE UNCHANGED recordingVars
    BY <2>4, RecordingStutters
  <2> QED BY <2>1, <2>2, <2>3, <2>4 DEF RecordingNext
<1> QED BY <1>1, <1>2, PTL DEF RecordingSpec

(* Whatever dumps fail and whenever the container is killed: unless a row  *)
(* was cut off, loading gives every recorded snapshot and trade once and   *)
(* in time order, and what is missing was lost to a kill.                  *)
THEOREM LoadedIsAll == RecordingSpec => []LoadedIsCaptured
<1>1. RecordingInv => LoadedIsCaptured
  BY LoadedFromInv DEF RecordingInv
<1> QED BY <1>1, RecordingIsInvariant, PTL

-----------------------------------------------------------------------------

LEMMA TimesSeen ==
    ASSUME SeenOk(seen), Len(seen) > 0
    PROVE  /\ Len(seen) \in Nat /\ DOMAIN seen = 1 .. Len(seen)
           /\ SeenTimes = StatesTimes(seen) /\ Last(SeenTimes) = TimeOf(seen, Len(seen))
           /\ \A i \in 1 .. Len(seen) : SeenTimes[i] = TimeOf(seen, i) /\ TimeOf(seen, i) \in Int
<1>1. Len(seen) \in Nat /\ DOMAIN seen = 1 .. Len(seen)
  BY SequenceIs DEF SeenOk
<1>2. SeenTimes = StatesTimes(seen)
  BY DEF SeenTimes, StatesTimes
<1>3. /\ DOMAIN SeenTimes = 1 .. Len(seen)
      /\ \A i \in 1 .. Len(seen) : SeenTimes[i] = TimeOf(seen, i)
  BY <1>1 DEF SeenTimes, TimeOf
<1>4. Len(SeenTimes) = Len(seen)
  BY <1>1, <1>3
<1>5. Last(SeenTimes) = TimeOf(seen, Len(seen))
  BY <1>1, <1>3, <1>4 DEF Last
<1>6. \A i \in 1 .. Len(seen) : TimeOf(seen, i) \in Int
  BY DEF SeenOk, IsState, TimeOf
<1> QED BY <1>1, <1>2, <1>3, <1>5, <1>6

LEMMA AgoIsAgo ==
    ASSUME SeenOk(seen), Len(seen) > 0, NEW lag \in Lags
    PROVE  StateAgo(lag) = AgoIn(seen, lag)
<1> DEFINE n == Len(seen)
           t == TimeOf(seen, n) - lag
           i == BisectRight(SeenTimes, t)
           times == SeenTimes
<1>1. /\ n \in Nat /\ n > 0 /\ DOMAIN seen = 1 .. n
      /\ SeenTimes = StatesTimes(seen) /\ Last(SeenTimes) = TimeOf(seen, n)
      /\ \A j \in 1 .. n : times[j] = TimeOf(seen, j) /\ times[j] \in Int
  BY TimesSeen
<1>2. DOMAIN times = 1 .. n
  BY <1>1 DEF SeenTimes
<1>3. t \in Int
  BY <1>1, ContextBounds
<1>4. i \in 0 .. n
  <2>1. \A a, b \in 1 .. n : a < b => times[a] < times[b]
    <3>1. \A a, b \in 1 .. n : a < b => TimeOf(seen, a) < TimeOf(seen, b)
      BY DEF SeenOk
    <3> HIDE DEF n, times
    <3> QED BY <3>1, <1>1
  <2>2. i = BisectRight(times, t)
    OBVIOUS
  <2> HIDE DEF n, times, t, i
  <2>3. BisectRight(times, t) \in 0 .. n
    BY <1>1, <1>2, <1>3, <2>1, BisectIs
  <2> QED BY <2>2, <2>3
<1>5. StateAgo(lag) = IF /\ i > 0
                         /\ t - times[i] <= MaxGap
                         /\ \A j \in i + 1 .. n : times[j] - times[j - 1] <= MaxGap
                      THEN seen[i].state
                      ELSE NoState
  BY <1>1 DEF StateAgo
<1>6. AgoIn(seen, lag) = IF /\ i > 0
                            /\ t - TimeOf(seen, i) <= MaxGap
                            /\ \A j \in i + 1 .. n : TimeOf(seen, j) - TimeOf(seen, j - 1) <= MaxGap
                         THEN seen[i].state
                         ELSE NoState
  BY <1>1 DEF AgoIn
<1> HIDE DEF n, t, i, times
<1>7. i > 0 => /\ times[i] = TimeOf(seen, i)
               /\ \A j \in i + 1 .. n : /\ times[j] = TimeOf(seen, j)
                                        /\ times[j - 1] = TimeOf(seen, j - 1)
  <2> SUFFICES ASSUME i > 0
               PROVE  /\ times[i] = TimeOf(seen, i)
                      /\ \A j \in i + 1 .. n : /\ times[j] = TimeOf(seen, j)
                                               /\ times[j - 1] = TimeOf(seen, j - 1)
    OBVIOUS
  <2>1. i \in 1 .. n /\ \A j \in i + 1 .. n : j \in 1 .. n /\ j - 1 \in 1 .. n
    BY <1>1, <1>4
  <2> QED BY <2>1, <1>1
<1>8. CASE i > 0
  BY <1>5, <1>6, <1>7, <1>8
<1>9. CASE ~(i > 0)
  BY <1>5, <1>6, <1>9
<1> QED BY <1>8, <1>9

LEMMA GreatestIs ==
    ASSUME NEW S, S \subseteq Int, NEW m \in S
    PROVE  /\ (\A x \in S : x <= m) => Max(S) = m
           /\ (\A x \in S : m <= x) => Min(S) = m
<1>1. ASSUME \A x \in S : x <= m PROVE Max(S) = m
  <2>1. \A y \in S : m >= y
    BY <1>1
  <2>2. \A x \in S : (\A y \in S : x >= y) => x = m
    BY <1>1
  <2> QED BY <2>1, <2>2 DEF Max
<1>2. ASSUME \A x \in S : m <= x PROVE Min(S) = m
  <2>1. \A y \in S : m =< y
    BY <1>2
  <2>2. \A x \in S : (\A y \in S : x =< y) => x = m
    BY <1>2
  <2> QED BY <2>1, <2>2 DEF Min
<1> QED BY <1>1, <1>2

LEMMA ReturnsAre ==
    ASSUME RecordingInv, position # NoPosition, Len(seen) > 0
    PROVE  mfe = Max({0} \union Returns) /\ mae = Min({0} \union Returns)
<1> DEFINE n == Len(seen)
           p == position
<1>1. SeenOk(seen) /\ Followed(seen, p, entry, first, mfe, mae)
  BY DEF RecordingInv
<1>2. /\ n \in Nat /\ n > 0 /\ DOMAIN seen = 1 .. n /\ Last(seen) = seen[n] /\ p = seen[n].position
  BY <1>1, TimesSeen DEF Last, Followed
<1>3. PICK b : Begins(seen, p, b) /\ first = seen[b].position.price
               /\ Extremes(seen, p, b, first, mfe, mae)
  BY <1>1 DEF Followed
<1> HIDE DEF n, p
<1>4. /\ b \in 1 .. n
      /\ \A i \in b .. n : seen[i].position.entry = p.entry
      /\ b > 1 => seen[b - 1].position.entry # p.entry
  BY <1>3 DEF Begins, n
<1>5. Since = b .. n
  <2>1. Since = {i \in 1 .. n : \A j \in i .. n : seen[j].position.entry = p.entry}
    BY <1>2 DEF Since, n
  <2>2. ASSUME NEW i \in 1 .. n, i < b PROVE \E j \in i .. n : seen[j].position.entry # p.entry
    <3>1. b > 1 /\ b - 1 \in i .. n
      BY <1>2, <1>4, <2>2
    <3> QED BY <3>1, <1>4
  <2>3. ASSUME NEW i \in 1 .. n, i >= b PROVE \A j \in i .. n : seen[j].position.entry = p.entry
    <3>1. \A j \in i .. n : j \in b .. n
      BY <1>2, <1>4, <2>3
    <3> QED BY <3>1, <1>4
  <2>4. \A i \in 1 .. n : i \in Since <=> i >= b
    <3>1. \A i \in 1 .. n : ~(i < b) => i >= b
      BY <1>4
    <3> QED BY <2>1, <2>2, <2>3, <3>1
  <2>5. Since \subseteq 1 .. n
    BY <2>1
  <2>6. \A i : i \in b .. n <=> i \in 1 .. n /\ i >= b
    BY <1>2, <1>4
  <2> QED BY <2>4, <2>5, <2>6
<1>6. (CHOOSE i \in Since : \A j \in Since : i <= j) = b
  <2>1. b \in b .. n /\ \A j \in b .. n : b <= j
    <3>1. b \in Int /\ n \in Int /\ b <= n
      BY <1>2, <1>4
    <3> QED BY <3>1
  <2>2. \A i \in b .. n : (\A j \in b .. n : i <= j) => i = b
    BY <2>1, <1>2, <1>4
  <2> QED BY <2>1, <2>2, <1>5
<1>7. Returns = {ReturnAt(seen, i, first, p) : i \in b .. n}
  BY <1>2, <1>3, <1>5, <1>6 DEF Returns, ReturnAt
<1>8. /\ mfe \in Int /\ mae \in Int /\ mfe >= 0 /\ mae <= 0
      /\ \A i \in b .. n : /\ ReturnAt(seen, i, first, p) \in Int
                           /\ mae <= ReturnAt(seen, i, first, p)
                           /\ ReturnAt(seen, i, first, p) <= mfe
      /\ mfe = 0 \/ \E i \in b .. n : mfe = ReturnAt(seen, i, first, p)
      /\ mae = 0 \/ \E i \in b .. n : mae = ReturnAt(seen, i, first, p)
  BY <1>3 DEF Extremes, n
<1> DEFINE S == {0} \union Returns
<1>9. /\ S \subseteq Int /\ mfe \in S /\ mae \in S
      /\ \A x \in S : x <= mfe /\ mae <= x
  BY <1>7, <1>8
<1> HIDE DEF S
<1>10. mfe = Max(S) /\ mae = Min(S)
  BY <1>9, GreatestIs
<1> QED BY <1>10 DEF S

(* What the context says of the past is what was seen: the states some     *)
(* time ago, and the best and worst return since the position was entered. *)
THEOREM ContextIsHistory == RecordingSpec => []ContextMatchesHistory
<1>1. RecordingInv => ContextMatchesHistory
  <2> SUFFICES ASSUME RecordingInv, context # NoContext
               PROVE  /\ context.timestamp = Last(SeenTimes)
                      /\ \A lag \in Lags : context.lagged[lag] = StateAgo(lag)
                      /\ context.mfe = Max({0} \union Returns)
                      /\ context.mae = Min({0} \union Returns)
    BY DEF ContextMatchesHistory
  <2>1. /\ SeenOk(seen) /\ KeptOk(seen, states, segment)
        /\ position # NoPosition /\ Len(seen) > 0
        /\ context.timestamp = TimeOf(seen, Len(seen)) /\ context.mfe = mfe /\ context.mae = mae
        /\ \A lag \in Lags : context.lagged[lag] = LagState(states, TimeOf(seen, Len(seen)) - lag)
    BY DEF RecordingInv, ContextOk
  <2>2. context.timestamp = Last(SeenTimes)
    BY <2>1, TimesSeen
  <2>3. \A lag \in Lags : context.lagged[lag] = StateAgo(lag)
    BY <2>1, LagIsAgo, AgoIsAgo
  <2>4. mfe = Max({0} \union Returns) /\ mae = Min({0} \union Returns)
    BY <2>1, ReturnsAre
  <2> QED BY <2>1, <2>2, <2>3, <2>4
<1> QED BY <1>1, RecordingIsInvariant, PTL
=============================================================================
