-------------------------- MODULE CollectorSession --------------------------
(***************************************************************************)
(* One connection of the market data collector: collect_connection reads   *)
(* messages into a BufferedWriter while a heartbeat task pings, cleans up  *)
(* when the connection ends or the task is cancelled, and run_collector    *)
(* then reconnects or stops.  The status task and the universe watcher,    *)
(* which cannot fail, are left out.                                        *)
(***************************************************************************)
EXTENDS BufferedWriter

CONSTANT MaxCancels    \* bound: cancellations of the collector task

ASSUME SessionAssumption == MaxCancels \in Nat

VARIABLES session,      \* where collect_connection is
          connection,   \* the websocket
          heartbeat,    \* the heartbeat task
          raising,      \* the exception that is propagating
          cancels,      \* how often the collector task was cancelled
          late,         \* history: a cancellation arrived during the cleanup
          outcome       \* what run_collector does next

sessionVars == <<session, connection, heartbeat, raising, cancels, late, outcome>>
allVars == <<writerVars, sessionVars>>

(* Connected, subscribed, the tasks and the writer started.                *)
SessionInit ==
    /\ WriterInit
    /\ session = "reading"
    /\ connection = "open"
    /\ heartbeat = "beating"
    /\ raising = "nothing"
    /\ cancels = 0
    /\ late = FALSE
    /\ outcome = "none"

-----------------------------------------------------------------------------

(* run_collector: "except CancelledError: raise", "except Exception" and   *)
(* an ordinary return lead to the next connection.                         *)
SessionOver(exception) ==
    /\ session' = "over"
    /\ raising' = exception
    /\ outcome' = IF exception = "cancelled" THEN "stop" ELSE "reconnect"

(* The finally block begins: the tasks are cancelled and the heartbeat is  *)
(* awaited.                                                                *)
LeaveLoop(exception) ==
    /\ session = "reading"
    /\ session' = "cleanup"
    /\ raising' = exception

ConnectionCloses ==
    /\ connection = "open"
    /\ connection' = "closed"
    /\ UNCHANGED <<writerVars, session, heartbeat, raising, cancels, late, outcome>>

(* websocket.send raises ConnectionClosed in the heartbeat task, while the *)
(* loop still works off messages received before.                          *)
HeartbeatBreaks ==
    /\ session = "reading"
    /\ connection = "closed"
    /\ heartbeat = "beating"
    /\ heartbeat' = "broken"
    /\ UNCHANGED <<writerVars, session, connection, raising, cancels, late, outcome>>

(* The next message passes the filters and goes to writer.write.           *)
Receive ==
    /\ session = "reading"
    /\ CallWrite
    /\ UNCHANGED sessionVars

(* writer.write raises what ended the worker, at once or after a wait.     *)
WriterBroken ==
    /\ WorkerDone
    /\ \/ call = "none" /\ UNCHANGED writerVars
       \/ WriteRaises
    /\ LeaveLoop("error")
    /\ UNCHANGED <<connection, heartbeat, cancels, late, outcome>>

(* The websocket's iterator ends, or raises, when the received messages    *)
(* are worked off.                                                         *)
StreamEnds ==
    /\ connection = "closed" /\ call = "none"
    /\ \E exception \in {"nothing", "error"} : LeaveLoop(exception)
    /\ UNCHANGED <<writerVars, connection, heartbeat, cancels, late, outcome>>

(* Faulty variant: the next connection is opened while the writer drains. *)
AwaitHeartbeatOnly ==
    /\ session = "cleanup"
    /\ heartbeat' = IF heartbeat = "broken" THEN heartbeat ELSE "stopped"
    /\ SessionOver(IF heartbeat = "broken" THEN "error" ELSE raising)
    /\ UNCHANGED <<writerVars, connection, cancels, late>>

(* "try: await task, except CancelledError: pass" for the heartbeat: if it *)
(* broke its exception leaves the finally block before writer.close().     *)
AwaitHeartbeat ==
    /\ session = "cleanup"
    /\ \/ /\ heartbeat = "broken"
          /\ SessionOver("error")
          /\ UNCHANGED <<writerVars, heartbeat>>
       \/ /\ heartbeat = "beating"
          /\ heartbeat' = "stopped"
          /\ session' = "closing"
          /\ CallClose
          /\ UNCHANGED <<raising, outcome>>
    /\ UNCHANGED <<connection, cancels, late>>

(* writer.close() raises what ended the worker in place of the exception   *)
(* that was propagating; otherwise that one goes on.                       *)
WriterClosed ==
    /\ session = "closing" /\ WorkerDone
    /\ CloseEnds \/ (call = "none" /\ UNCHANGED writerVars)
    /\ SessionOver(IF worker = "failed" THEN "error" ELSE raising)
    /\ UNCHANGED <<connection, heartbeat, cancels, late>>

WriterGoesOn ==
    /\ Worker \/ PutLands \/ WriteReturns \/ StopLanded
    /\ UNCHANGED sessionVars

(* Faulty variant: a cancelled write is taken for a broken connection.     *)
CancelAsError ==
    /\ cancels < MaxCancels
    /\ cancels' = cancels + 1
    /\ LeaveLoop("error")
    /\ CancelClient \/ (call = "none" /\ UNCHANGED writerVars)
    /\ UNCHANGED <<connection, heartbeat, late, outcome>>

(* task.cancel() reaches the await in which the collector is suspended: a  *)
(* message or writer.write, a task's end, or writer.close.                 *)
Cancel ==
    /\ cancels < MaxCancels
    /\ cancels' = cancels + 1
    /\ \/ /\ LeaveLoop("cancelled")
          /\ CancelClient \/ (call = "none" /\ UNCHANGED writerVars)
          /\ UNCHANGED <<heartbeat, outcome>>
       \/ /\ session = "cleanup" /\ heartbeat = "beating"
          /\ UNCHANGED <<writerVars, session, heartbeat, raising, outcome>>
       \/ /\ session = "closing"
          /\ CancelClient
          /\ SessionOver("cancelled")
          /\ UNCHANGED heartbeat
    /\ late' = (late \/ session # "reading")
    /\ UNCHANGED connection

(* The collector is over: asyncio.run cancels the tasks that are left, and *)
(* waits for the threads.                                                  *)
ProcessExit ==
    /\ outcome = "stop"
    /\ CancelWorker
    /\ UNCHANGED sessionVars

SessionNext ==
    \/ ConnectionCloses \/ HeartbeatBreaks \/ Receive \/ WriterBroken
    \/ StreamEnds \/ AwaitHeartbeat \/ WriterClosed \/ WriterGoesOn
    \/ Cancel \/ ProcessExit

SessionSpec == SessionInit /\ [][SessionNext]_allVars

FairSessionSpec ==
    /\ SessionSpec
    /\ WF_allVars(WriterGoesOn)
    /\ WF_allVars(WorkerTimesOut /\ UNCHANGED sessionVars)
    /\ WF_allVars(WriterBroken \/ StreamEnds)
    /\ WF_allVars(AwaitHeartbeat)
    /\ WF_allVars(WriterClosed)
-----------------------------------------------------------------------------

(* "Drain accepted events before reconnecting." (line 203): when the       *)
(* session ends without a failing disk, everything accepted is in the      *)
(* files.                                                                  *)
DrainsBeforeReconnecting ==
    session = "over" /\ worker # "failed" => disk = accepted

(* "The writer drains on normal disconnect/cancellation" (README.md:155):  *)
(* everything accepted is in the files when the session ends, except when  *)
(* the disk failed, when the heartbeat's exception skips the drain, and    *)
(* when a cancellation arrives while the cleanup waits.                    *)
SessionDrains ==
    session = "over" /\ worker # "failed" /\ heartbeat # "broken" /\ ~late =>
        disk = accepted

(* run_collector lets a cancellation through, and collect_hyperliquid_ws   *)
(* waits for the task it cancelled: a collector that was cancelled while it*)
(* read does not connect again, unless an exception of the disk or of the  *)
(* heartbeat takes the cancellation's place.                               *)
CancelStops ==
    session = "over" /\ cancels > 0 /\ ~late
        /\ worker # "failed" /\ heartbeat # "broken" => outcome = "stop"

(* A client that waits for room gets an answer.                            *)
WriteAnswers == (call = "write") ~> (call = "none")

(* A closed connection is noticed: the session ends, whatever the writer,  *)
(* the heartbeat and cancellations do.                                     *)
SessionEnds == connection = "closed" ~> session = "over"

=============================================================================
