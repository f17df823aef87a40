---- MODULE CallRecordings ----
(***************************************************************************)
(* A session's recording writer and the archive its spool ends up in.  The *)
(* writer object lives while the session records; its first chunk makes    *)
(* the spool file, and what its finalize() returns decides which way the   *)
(* recording goes on.                                                      *)
(***************************************************************************)
EXTENDS RecordingSpool, CallArchive

vars == <<spoolVars, archiveVars>>

Init == SpoolInit /\ ArchiveInit

Recording == at["session"] = "capture"

SpoolStep ==
  /\ Recording /\ SpoolNext
  /\ IF written' = 1 /\ written = 0 THEN capture ELSE UNCHANGED archiveVars

\* The writer object goes with the session that owned it.
WriterGone ==
  /\ audioQueue' = <<>> /\ unfinished' = 0
  /\ writer' = "get" /\ failed' = FALSE /\ finalizer' = "open"
  /\ heard' = 0 /\ written' = 0

HandOver == finalizer = "returned" /\ finalize(~failed) /\ WriterGone

Crash ==
  \E tasks \in Deaths :
    /\ crash(tasks)
    /\ IF "session" \in tasks THEN WriterGone ELSE UNCHANGED spoolVars

ArchiveStep ==
  /\ \/ start \/ end_call
     \/ \E f \in Finishers : finalize_recording(f)
     \/ TimePasses \/ move_spool_dir
     \/ soft_delete_call \/ restore_call
     \/ \E l \in Loops : Maintenance(l)
  /\ UNCHANGED spoolVars

Next == SpoolStep \/ HandOver \/ Crash \/ ArchiveStep

\* The event loop runs the writer and the teardown, time passes, and every
\* maintenance task makes its passes.
Fairness ==
  /\ WF_vars(SpoolStep /\ (WriterNext \/ FinalizerNext))
  /\ WF_vars(HandOver)
  /\ WF_vars(end_call /\ UNCHANGED spoolVars)
  /\ WF_vars(TimePasses /\ UNCHANGED spoolVars)
  /\ \A f \in Finishers : WF_vars(finalize_recording(f) /\ UNCHANGED spoolVars)
  /\ \A l \in Loops : WF_vars(Maintenance(l) /\ UNCHANGED spoolVars)

Spec == Init /\ [][Next]_vars /\ Fairness

TypeOK == SpoolTypeOK /\ ArchiveTypeOK

\* A teardown that began to finalize the recording gets past it, unless the
\* _STOP mark was put for a writer that had already emptied its queue.
FinalizeEnds ==
  finalizer # "open" ~> (finalizer = "open" \/ Wedged)

\* A recording nobody works on any more does not stay unfinished: once the
\* call is terminal its recording becomes available, failed or deleted.
RecordingSettles ==
  (callStatus = "terminal" /\ recStatus \in {"recording", "processing"})
    ~> recStatus \notin {"recording", "processing"}

\* A call that is due is purged, failures of the store and of the database
\* included, unless its claim was stranded or its spool directory moved.
PurgeCompletes ==
  due ~> (callStatus = "gone" \/ stranded \/ (moved /\ recPath))
====
