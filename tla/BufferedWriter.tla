--------------------------- MODULE BufferedWriter ---------------------------
(***************************************************************************)
(* hlbot.data.buffered_writer.BufferedJSONLWriter with one client task: a  *)
(* bounded asyncio queue, a worker task that batches, and a thread that    *)
(* writes a batch to disk.  A step is what runs between two awaits.        *)
(*                                                                         *)
(* Records are numbered in the order in which they are offered to write(). *)
(* The files of a batch are abstracted to one: a write that fails leaves   *)
(* some prefix of its batch behind.                                        *)
(***************************************************************************)
EXTENDS Integers, SequencesExt

CONSTANTS MaxQueue,     \* max_queue
          BatchSize,    \* batch_size
          MaxRecords,   \* bound: how many records the client offers
          DiskMayFail,  \* whether _write_batch can raise
          Stop          \* _STOP

ASSUME WriterAssumption ==
    /\ MaxQueue \in Nat \ {0}
    /\ BatchSize \in Nat \ {0}
    /\ MaxRecords \in Nat
    /\ DiskMayFail \in BOOLEAN
    /\ Stop \notin Nat

VARIABLES queue,      \* queue
          batch,      \* the worker's local batch
          worker,     \* where the worker task is, or how it ended
          thread,     \* the batch that asyncio.to_thread is writing
          disk,       \* records in the files
          closed,     \* _closed
          call,       \* the await in which the client is suspended
          put,        \* put_task of _put_or_failure
          offered,    \* how many records were given to write()
          accepted    \* history: the records that got into the queue, in order

writerVars ==
    <<queue, batch, worker, thread, disk, closed, call, put, offered, accepted>>

Done == {"returned", "failed", "cancelled"}

WorkerDone == worker \in Done

QueueFull == Len(queue) >= MaxQueue

(* The state after start().                                                *)
WriterInit ==
    /\ queue = <<>>
    /\ batch = <<>>
    /\ worker = "getting"
    /\ thread = <<>>
    /\ disk = <<>>
    /\ closed = FALSE
    /\ call = "none"
    /\ put = "none"
    /\ offered = 0
    /\ accepted = <<>>

-----------------------------------------------------------------------------
(* The worker task, _run, and the thread of _flush.                        *)

StartFlush(records, state) ==
    /\ thread' = records
    /\ worker' = state

(* Faulty variant: batches have no bound, only the timer flushes.          *)
WorkerKeepsCollecting ==
    /\ worker = "getting"
    /\ queue # <<>> /\ Head(queue) # Stop
    /\ queue' = Tail(queue)
    /\ batch' = Append(batch, Head(queue))
    /\ UNCHANGED <<worker, thread, disk, closed, call, put, offered, accepted>>

(* queue.get() returned a record.                                          *)
WorkerGetsRecord ==
    /\ worker = "getting"
    /\ queue # <<>> /\ Head(queue) # Stop
    /\ queue' = Tail(queue)
    /\ batch' = Append(batch, Head(queue))
    /\ IF Len(batch) + 1 >= BatchSize
         THEN StartFlush(batch', "flushing")
         ELSE UNCHANGED <<worker, thread>>
    /\ UNCHANGED <<disk, closed, call, put, offered, accepted>>

(* queue.get() returned _STOP.                                             *)
WorkerGetsStop ==
    /\ worker = "getting"
    /\ queue # <<>> /\ Head(queue) = Stop
    /\ queue' = Tail(queue)
    /\ IF batch # <<>>
         THEN StartFlush(batch, "stopping")
         ELSE worker' = "returned" /\ UNCHANGED thread
    /\ UNCHANGED <<batch, disk, closed, call, put, offered, accepted>>

(* wait_for timed out; a record that arrived meanwhile stays in the queue. *)
WorkerTimesOut ==
    /\ worker = "getting"
    /\ batch # <<>>
    /\ StartFlush(batch, "flushing")
    /\ UNCHANGED <<queue, batch, disk, closed, call, put, offered, accepted>>

(* Faulty variant: the batch is not emptied, and is written again.         *)
FlushKeepsBatch ==
    /\ thread # <<>>
    /\ disk' = disk \o thread
    /\ thread' = <<>>
    /\ worker' = IF worker = "flushing" THEN "getting"
                 ELSE IF worker = "stopping" THEN "returned" ELSE worker
    /\ UNCHANGED <<queue, batch, closed, call, put, offered, accepted>>

(* The thread has written the batch; a worker that was cancelled meanwhile *)
(* does not see it.                                                        *)
FlushSucceeds ==
    /\ thread # <<>>
    /\ disk' = disk \o thread
    /\ thread' = <<>>
    /\ \/ /\ worker = "flushing"
          /\ worker' = "getting"
          /\ batch' = <<>>
       \/ /\ worker = "stopping"
          /\ worker' = "returned"
          /\ batch' = <<>>
       \/ /\ WorkerDone
          /\ UNCHANGED <<worker, batch>>
    /\ UNCHANGED <<queue, closed, call, put, offered, accepted>>

(* Faulty variant: the worker survives and writes the batch again.         *)
FlushFailsAndRetries ==
    /\ DiskMayFail
    /\ thread # <<>>
    /\ \E n \in 0..(Len(thread) - 1) : disk' = disk \o SubSeq(thread, 1, n)
    /\ thread' = <<>>
    /\ worker' = IF WorkerDone THEN worker ELSE "getting"
    /\ UNCHANGED <<queue, batch, closed, call, put, offered, accepted>>

(* _write_batch raised; the exception ends the worker.                     *)
FlushFails ==
    /\ DiskMayFail
    /\ thread # <<>>
    /\ \E n \in 0..(Len(thread) - 1) : disk' = disk \o SubSeq(thread, 1, n)
    /\ thread' = <<>>
    /\ worker' = IF WorkerDone THEN worker ELSE "failed"
    /\ UNCHANGED <<queue, batch, closed, call, put, offered, accepted>>

Worker ==
    \/ WorkerGetsRecord \/ WorkerGetsStop \/ WorkerTimesOut
    \/ FlushSucceeds \/ FlushFails

-----------------------------------------------------------------------------
(* The client's calls.  _put_or_failure returns at once when there is room *)
(* and otherwise suspends the client until put_task or the worker is done. *)

Accept(item) ==
    /\ queue' = Append(queue, item)
    /\ accepted' = IF item = Stop THEN accepted ELSE Append(accepted, item)

PutOrFailure(item, suspended, returned) ==
    IF QueueFull
      THEN /\ put' = "pending"
           /\ call' = suspended
           /\ UNCHANGED <<queue, accepted>>
      ELSE /\ Accept(item)
           /\ call' = returned
           /\ UNCHANGED put

(* write(): raises, and changes nothing, when closed or the worker is done.*)
CallWrite ==
    /\ call = "none" /\ ~closed /\ ~WorkerDone
    /\ offered < MaxRecords
    /\ offered' = offered + 1
    /\ PutOrFailure(offered', "write", "none")
    /\ UNCHANGED <<batch, worker, thread, disk, closed>>

(* put_task runs when the worker has taken something from the full queue.  *)
PutLands ==
    /\ put = "pending"
    /\ ~QueueFull
    /\ Accept(IF call = "stop" THEN Stop ELSE offered)
    /\ put' = "landed"
    /\ UNCHANGED <<batch, worker, thread, disk, closed, call, offered>>

(* put_task is cancelled if it is still pending.                           *)
LeavePut(next) ==
    /\ put' = "none"
    /\ call' = next
    /\ UNCHANGED <<queue, batch, thread, disk, closed, offered, accepted>>

WriteReturns ==
    /\ call = "write" /\ put = "landed" /\ ~WorkerDone
    /\ LeavePut("none")
    /\ UNCHANGED worker

(* Faulty variant: the client only waits for room, as queue.put does.      *)
WriteNeverRaises ==
    /\ call = "write" /\ put = "landed" /\ WorkerDone
    /\ LeavePut("none")
    /\ UNCHANGED worker

(* The worker ended while the client was waiting for room.                 *)
WriteRaises ==
    /\ call = "write" /\ WorkerDone
    /\ LeavePut("none")
    /\ UNCHANGED worker

(* close(), up to its first suspension; with a worker that is done it      *)
(* returns or raises at once.                                              *)
CallClose ==
    /\ call = "none" /\ ~closed
    /\ closed' = TRUE
    /\ IF WorkerDone
         THEN UNCHANGED <<queue, accepted, put, call>>
         ELSE PutOrFailure(Stop, "stop", "join")
    /\ UNCHANGED <<batch, worker, thread, disk, offered>>

StopLanded ==
    /\ call = "stop" /\ put = "landed" /\ ~WorkerDone
    /\ LeavePut("join")
    /\ UNCHANGED worker

(* Faulty variant: close() does not see a worker that failed.              *)
CloseEndsIfReturned ==
    /\ call \in {"stop", "join"} /\ worker = "returned"
    /\ LeavePut("none")
    /\ UNCHANGED worker

(* close() is over: it raises what ended the worker, if anything did.      *)
CloseEnds ==
    /\ call \in {"stop", "join"} /\ WorkerDone
    /\ LeavePut("none")
    /\ UNCHANGED worker

(* The client task is cancelled at its await.  Awaiting the worker task    *)
(* passes the cancellation on to it; its thread runs on.                   *)
CancelClient ==
    /\ call # "none"
    /\ LeavePut("none")
    /\ worker' = IF call = "join" /\ ~WorkerDone THEN "cancelled" ELSE worker

(* The worker is cancelled by asyncio.run when the main task is over.      *)
CancelWorker ==
    /\ ~WorkerDone
    /\ worker' = "cancelled"
    /\ UNCHANGED <<queue, batch, thread, disk, closed, call, put, offered, accepted>>

Client ==
    \/ CallWrite \/ PutLands \/ WriteReturns \/ WriteRaises
    \/ CallClose \/ StopLanded \/ CloseEnds

WriterNext == Worker \/ Client \/ CancelClient \/ CancelWorker

WriterSpec == WriterInit /\ [][WriterNext]_writerVars

-----------------------------------------------------------------------------

(* close() puts _STOP once, and nothing behind it.                         *)
QueuedRecords == IF queue # <<>> /\ Last(queue) = Stop THEN Front(queue) ELSE queue

(* Nothing accepted is lost, doubled or overtaken on its way to the disk   *)
(* while the worker lives; README.md:155, "rather than silently discarding *)
(* accepted messages".                                                     *)
Conserved ==
    ~WorkerDone => disk \o batch \o QueuedRecords = accepted

(* Even after a failure or a cancellation the files hold the records in    *)
(* order, without gap or repetition.                                       *)
DiskIsPrefix == IsPrefix(disk, accepted)

(* From write() to the file each record keeps its place and is written     *)
(* once, however the worker ends.                                          *)
(* Hazard: three copies of a record (queue, batch, thread) are handed on   *)
(* at awaits that may be cancelled or fail.                                *)
RecordsKeepOrder == Conserved /\ DiskIsPrefix

(* Backpressure bounds what a crash of the process can lose.               *)
AtRiskBounded == Len(accepted) - Len(disk) <= MaxQueue + BatchSize

=============================================================================
