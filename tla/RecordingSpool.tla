---- MODULE RecordingSpool ----
(***************************************************************************)
(* CallRecordingWriter (services/recordings.py): the audio callback of a   *)
(* session, the writer task behind its bounded queue and the finalize()    *)
(* that the session's teardown awaits.  The three share one event loop, so *)
(* each step runs from one await to the next.                              *)
(***************************************************************************)
EXTENDS Naturals, Sequences

CONSTANTS
  SpoolCapacity,   \* maxsize of the audio queue
  MaxChunks        \* bound: audio chunks the pipeline emits

ASSUME RecordingSpoolAssumption ==
  SpoolCapacity \in Nat \ {0} /\ MaxChunks \in Nat

VARIABLES
  audioQueue,   \* _queue: chunks and the _STOP mark
  unfinished,   \* the queue's count of items without task_done()
  writer,       \* where _write_loop is
  failed,       \* _failed
  finalizer,    \* where finalize() is; past "open" _closed is set
  heard,        \* history: chunks the pipeline emitted before _closed
  written       \* history: chunks in the spool file

spoolVars == <<audioQueue, unfinished, writer, failed, finalizer,
               heard, written>>

WriterStates == {"get", "write", "report", "done"}
FinalizerStates == {"open", "put", "join", "returned"}

SpoolInit ==
  /\ audioQueue = <<>> /\ unfinished = 0
  /\ writer = "get" /\ failed = FALSE /\ finalizer = "open"
  /\ heard = 0 /\ written = 0

Full == Len(audioQueue) >= SpoolCapacity

---------------------------------------------------------------------------
\* Fault: a full queue drops the chunk without marking the spool incomplete.
accept_audioForgetsLoss ==
  /\ finalizer = "open" /\ heard < MaxChunks
  /\ heard' = heard + 1
  /\ IF failed \/ Full
     THEN UNCHANGED <<audioQueue, unfinished>>
     ELSE /\ audioQueue' = Append(audioQueue, "chunk")
          /\ unfinished' = unfinished + 1
  /\ UNCHANGED <<failed, writer, finalizer, written>>

\* accept_audio: a closed or failed writer ignores the chunk.
accept_audio ==
  /\ finalizer = "open" /\ heard < MaxChunks
  /\ heard' = heard + 1
  /\ IF failed \/ Full
     THEN /\ failed' = TRUE
          /\ UNCHANGED <<audioQueue, unfinished>>
     ELSE /\ audioQueue' = Append(audioQueue, "chunk")
          /\ unfinished' = unfinished + 1
          /\ UNCHANGED failed
  /\ UNCHANGED <<writer, finalizer, written>>

\* accept_audio of a chunk with another rate or channel count.
reject_format ==
  /\ finalizer = "open" /\ heard < MaxChunks
  /\ heard' = heard + 1 /\ failed' = TRUE
  /\ UNCHANGED <<audioQueue, unfinished, writer, finalizer, written>>

---------------------------------------------------------------------------
\* _write_loop takes an item.  The _STOP mark ends it through its finally
\* clauses, which mark the item done and empty the queue.
take ==
  /\ writer = "get" /\ audioQueue # <<>>
  /\ audioQueue' = Tail(audioQueue)
  /\ IF Head(audioQueue) = "stop"
     THEN writer' = "done" /\ unfinished' = unfinished - 1
     ELSE writer' = "write" /\ UNCHANGED unfinished
  /\ UNCHANGED <<failed, finalizer, heard, written>>

write ==
  /\ writer = "write"
  /\ writer' = "get" /\ written' = written + 1
  /\ unfinished' = unfinished - 1
  /\ UNCHANGED <<audioQueue, failed, finalizer, heard>>

\* The write raises: task_done() of the finally, then save_call_event.
write_error ==
  /\ writer = "write"
  /\ writer' = "report" /\ failed' = TRUE
  /\ unfinished' = unfinished - 1
  /\ UNCHANGED <<audioQueue, finalizer, heard, written>>

\* Fault: the queue is emptied without marking its items done.
drainSkipsDone ==
  /\ writer = "report"
  /\ writer' = "done"
  /\ audioQueue' = <<>>
  /\ UNCHANGED <<unfinished, failed, finalizer, heard, written>>

\* The event is saved and the outer finally empties the queue, waking a
\* finalize() that waits for room: its put completes after the drain.
drain ==
  /\ writer = "report"
  /\ writer' = "done"
  /\ unfinished' = unfinished - Len(audioQueue)
  /\ audioQueue' = <<>>
  /\ UNCHANGED <<failed, finalizer, heard, written>>

---------------------------------------------------------------------------
put_stop ==
  /\ audioQueue' = Append(audioQueue, "stop")
  /\ unfinished' = unfinished + 1
  /\ finalizer' = "join"

\* finalize(): sets _closed and puts _STOP for a writer task that still runs.
\* The put suspends only when the queue is full.
close ==
  /\ finalizer = "open"
  /\ \/ /\ writer = "done" /\ finalizer' = "returned"
        /\ UNCHANGED <<audioQueue, unfinished>>
     \/ writer # "done" /\ ~Full /\ put_stop
     \/ /\ writer # "done" /\ Full /\ finalizer' = "put"
        /\ UNCHANGED <<audioQueue, unfinished>>
  /\ UNCHANGED <<writer, failed, heard, written>>

\* A get made room and woke the suspended put; the writer may have moved on.
resume_put ==
  /\ finalizer = "put" /\ ~Full
  /\ put_stop
  /\ UNCHANGED <<writer, failed, heard, written>>

\* queue.join() and the gather of the writer task.
join ==
  /\ finalizer = "join" /\ unfinished = 0 /\ writer = "done"
  /\ finalizer' = "returned"
  /\ UNCHANGED <<audioQueue, unfinished, writer, failed, heard, written>>

\* The mark was put after the writer emptied the queue and ended: it stays there,
\* and join() waits for a task_done() that nobody is left to call.
Wedged == finalizer = "join" /\ writer = "done" /\ audioQueue # <<>>

WriterNext == take \/ write \/ write_error \/ drain
FinalizerNext == close \/ resume_put \/ join
SpoolNext == accept_audio \/ reject_format \/ WriterNext \/ FinalizerNext

---------------------------------------------------------------------------
SpoolTypeOK ==
  /\ audioQueue \in Seq({"chunk", "stop"}) /\ Len(audioQueue) <= SpoolCapacity
  /\ unfinished \in Nat
  /\ writer \in WriterStates /\ failed \in BOOLEAN
  /\ finalizer \in FinalizerStates
  /\ heard \in 0..MaxChunks /\ written \in 0..MaxChunks

\* finalize() reports a spool as intact only if every chunk the pipeline
\* emitted before the teardown is in the file, whatever the queue, the writer
\* task and the teardown were doing when it was called.
SpoolComplete ==
  finalizer = "returned" /\ ~failed => written = heard /\ audioQueue = <<>>
====
