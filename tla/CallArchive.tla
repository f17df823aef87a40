---- MODULE CallArchive ----
(***************************************************************************)
(* One call's recording from its spool to its purge: the transactions on   *)
(* the call and recording rows, the three files outside the database (the  *)
(* PCM spool, the encoded temporary, the stored object), the finishers     *)
(* that turn the spool into the object, and the maintenance that recovers  *)
(* unfinished recordings and purges deleted calls (services/recordings.py, *)
(* services/call_maintenance.py, services/calls.py).                       *)
(*                                                                         *)
(* The session's writer and every maintenance task are finishers: each     *)
(* runs finalize_recording, one step per transaction, encoding or upload.  *)
(* A step that raises spends a fault; a task or a process that dies spends *)
(* a crash.                                                                *)
(***************************************************************************)
EXTENDS Naturals

CONSTANTS
  Loops,        \* maintenance tasks: call_maintenance_loop, recording-recovery
  MaxDeletes,   \* bound: deletions by the user
  MaxCrashes,   \* bound: tasks or processes that die
  MaxFaults     \* bound: external calls and transactions that raise

ASSUME CallArchiveAssumption ==
  /\ MaxDeletes \in Nat /\ MaxCrashes \in Nat /\ MaxFaults \in Nat
  /\ "session" \notin Loops

VARIABLES
  callStatus,   \* Call.status, as "live" or "terminal"; "gone" without a row
  deleted,      \* deleted_at is set
  due,          \* purge_after has passed
  purging,      \* purge_started_at is set
  callStale,    \* Call.updated_at is older than the cutoff
  recStatus,    \* CallRecording.status; "none" without a row
  recKey,       \* CallRecording.object_key is set
  recPath,      \* CallRecording.spool_path is set
  recStale,     \* CallRecording.updated_at is older than the cutoff
  moved,        \* RECORDING_SPOOL_DIR differs from the stored spool_path's
  files,        \* files outside the database
  at,           \* where each finisher is
  snapshot,     \* what a purge read of the recording row when it claimed
  overlapped,   \* history: a recording was claimed while it was worked on
  leak,         \* history: files whose clean-up was cut short
  stranded,     \* history: a purge died, or failed twice, with its claim
  deletes, crashes, faults

rowVars == <<callStatus, deleted, due, purging, callStale>>
recVars == <<recStatus, recKey, recPath, recStale>>
history == <<overlapped, leak, stranded>>
budget == <<deletes, crashes, faults>>
archiveVars == <<rowVars, recVars, moved, files, at, snapshot, history, budget>>

Finishers == Loops \cup {"session"}
Files == {"spool", "tmp", "object"}
RecordingStatuses ==
  {"none", "recording", "processing", "available", "failed", "deleted"}
Finishing == {"reject", "begin", "encode", "upload", "commit", "undo", "unlink", "fail"}
Purging == {"erase", "row", "release"}
Positions == {"idle", "capture", "done", "dead"} \cup Finishing \cup Purging

\* What a task leaves behind that no row names, if it stops where it is.
Unnamed(f) ==
  CASE at[f] = "upload" -> {"tmp"}
    [] at[f] = "commit" -> {"tmp", "object"}
    [] at[f] = "undo" -> Files
    [] at[f] = "unlink" -> {"spool", "tmp"}
    [] at[f] = "fail" -> {"tmp"}
    [] OTHER -> {}

ArchiveInit ==
  /\ callStatus = "live" /\ deleted = FALSE /\ due = FALSE /\ purging = FALSE
  /\ callStale = FALSE
  /\ recStatus = "none" /\ recKey = FALSE /\ recPath = FALSE /\ recStale = FALSE
  /\ moved = FALSE /\ files = {}
  /\ at = [f \in Finishers |-> "idle"]
  /\ snapshot = [l \in Loops |-> {}]
  /\ overlapped = FALSE /\ leak = {} /\ stranded = FALSE
  /\ deletes = 0 /\ crashes = 0 /\ faults = 0

Go(f, p) == at' = [at EXCEPT ![f] = p]
Fault == faults < MaxFaults /\ faults' = faults + 1 /\ UNCHANGED <<deletes, crashes>>
Sound == UNCHANGED budget

---------------------------------------------------------------------------
\* _set_recording_state under the locks of both rows.  Without a call, or with
\* a deleted one, it writes nothing but the status "deleted" and is refused.
Refused == callStatus = "gone" \/ deleted

set_state_refused ==
  /\ Refused
  /\ recStatus' = IF recStatus = "none" THEN "none" ELSE "deleted"
  /\ recStale' = (recStale /\ recStatus \in {"none", "deleted"})
  /\ UNCHANGED <<recKey, recPath>>

\* Fault: the deletion of the call is not looked at.
set_recording_state_blind(status, key, path) ==
  /\ callStatus # "gone"
  /\ recStatus' = status /\ recKey' = key /\ recPath' = path
  /\ recStale' = FALSE

set_recording_state(status, key, path) ==
  /\ ~Refused
  /\ recStatus' = status /\ recKey' = key /\ recPath' = path
  /\ recStale' = FALSE

\* mark_recording_failed, and every other transition to "failed".
mark_failed ==
  \/ set_recording_state("failed", recKey, recPath)
  \/ set_state_refused

---------------------------------------------------------------------------
\* The session's writer.  start() may raise: the call goes on unrecorded.
start ==
  /\ at["session"] = "idle" /\ recStatus = "none" /\ callStatus = "live"
  /\ \/ /\ set_recording_state("recording", recKey, TRUE)
        /\ Go("session", "capture") /\ Sound
     \/ /\ Fault /\ mark_failed
        /\ UNCHANGED at
  /\ UNCHANGED <<rowVars, moved, files, snapshot, history>>

\* The first chunk reaches the spool file.
capture ==
  /\ at["session"] = "capture" /\ "spool" \notin files
  /\ files' = files \cup {"spool"}
  /\ UNCHANGED <<rowVars, recVars, moved, at, snapshot, history, budget>>

\* CallRecordingWriter.finalize: an intact spool goes to finalize_recording.
finalize(intact) ==
  /\ at["session"] = "capture"
  /\ \/ intact /\ Go("session", "begin") /\ Sound /\ UNCHANGED recVars
     \/ ~intact /\ Go("session", "done") /\ Sound /\ mark_failed
     \/ ~intact /\ Go("session", "done") /\ Fault /\ UNCHANGED recVars
  /\ UNCHANGED <<rowVars, moved, files, snapshot, history>>

\* finalize_call, once the teardown is past the recording; the heartbeat stops.
end_call ==
  /\ callStatus = "live"
  /\ \/ at["session"] = "done"
     \/ at["session"] = "idle" /\ recStatus # "none"
  /\ callStatus' = "terminal"
  /\ UNCHANGED <<deleted, due, purging, callStale, recVars, moved, files, at,
                 snapshot, history, budget>>

---------------------------------------------------------------------------
\* finalize_recording.  A maintenance task that is done is "idle" again; the
\* session never finishes twice.
Done(f) == IF f = "session" THEN "done" ELSE "idle"

begin(f) ==
  /\ at[f] = "begin"
  /\ \/ /\ set_recording_state("processing", recKey, TRUE)
        /\ Go(f, "encode") /\ Sound
     \/ set_state_refused /\ Go(f, Done(f)) /\ Sound
     \/ Fault /\ Go(f, Done(f)) /\ UNCHANGED recVars
  /\ UNCHANGED <<rowVars, moved, files, snapshot, history>>

\* An empty or missing spool raises, and so may the encoder.
encode(f) ==
  /\ at[f] = "encode"
  /\ \/ /\ "spool" \in files
        /\ files' = files \cup {"tmp"} /\ Go(f, "upload") /\ Sound
     \/ /\ "spool" \notin files
        /\ Go(f, "fail") /\ Sound /\ UNCHANGED files
     \/ /\ "spool" \in files /\ Fault
        /\ files' = files \cup {"tmp"} /\ Go(f, "fail")
  /\ UNCHANGED <<rowVars, recVars, moved, snapshot, history>>

\* An upload that raises may have stored the object.
upload(f) ==
  /\ at[f] = "upload"
  /\ \/ /\ "tmp" \in files
        /\ files' = files \cup {"object"} /\ Go(f, "commit") /\ Sound
        /\ UNCHANGED leak
     \/ /\ "tmp" \notin files
        /\ Go(f, "fail") /\ Sound /\ UNCHANGED <<files, leak>>
     \/ /\ "tmp" \in files /\ Fault /\ Go(f, "fail")
        /\ \/ files' = files \cup {"object"} /\ leak' = leak \cup {"object"}
           \/ UNCHANGED <<files, leak>>
  /\ UNCHANGED <<rowVars, recVars, moved, snapshot, overlapped, stranded>>

\* The row takes the object; a deletion that won sends the finisher back.
commit(f) ==
  /\ at[f] = "commit"
  /\ \/ /\ set_recording_state("available", TRUE, FALSE)
        /\ Go(f, "unlink") /\ Sound /\ UNCHANGED leak
     \/ /\ set_state_refused
        /\ Go(f, "undo") /\ Sound /\ UNCHANGED leak
     \/ /\ Fault /\ Go(f, "fail")
        /\ leak' = leak \cup {"object"} /\ UNCHANGED recVars
  /\ UNCHANGED <<rowVars, moved, files, snapshot, overlapped, stranded>>

\* Fault: the object of a deleted call is left in the store.
undoKeepsObject(f) ==
  /\ at[f] = "undo"
  /\ files' = files \ {"spool", "tmp"} /\ Go(f, Done(f))
  /\ UNCHANGED <<rowVars, recVars, moved, snapshot, history, budget>>

undo(f) ==
  /\ at[f] = "undo"
  /\ \/ /\ files' = {} /\ leak' = {}
        /\ Go(f, Done(f)) /\ Sound
     \/ /\ Fault /\ leak' = leak \cup {"object"}
        /\ Go(f, "fail") /\ UNCHANGED files
  /\ UNCHANGED <<rowVars, recVars, moved, snapshot, overlapped, stranded>>

unlink(f) ==
  /\ at[f] = "unlink"
  /\ files' = files \ {"spool", "tmp"} /\ leak' = {}
  /\ Go(f, Done(f))
  /\ UNCHANGED <<rowVars, recVars, moved, snapshot, overlapped, stranded, budget>>

\* The except clause.  If its own transaction raises, the row stays as it was.
fail(f) ==
  /\ at[f] = "fail"
  /\ files' = files \ {"tmp"}
  /\ Go(f, Done(f))
  /\ \/ mark_failed /\ Sound
     \/ Fault /\ UNCHANGED recVars
  /\ UNCHANGED <<rowVars, moved, snapshot, history>>

finalize_recording(f) ==
  \/ begin(f) \/ encode(f) \/ upload(f) \/ commit(f)
  \/ undo(f) \/ unlink(f) \/ fail(f)

---------------------------------------------------------------------------
\* Time.

Busy == \E f \in Finishers : at[f] \in Finishing \cup {"capture"}

\* Thirty seconds pass since the recording row was touched.
lease_lapses ==
  /\ recStatus \in {"recording", "processing"} /\ ~recStale
  /\ recStale' = TRUE
  /\ UNCHANGED <<rowVars, recStatus, recKey, recPath, moved, files, at,
                 snapshot, history, budget>>

\* The heartbeat stops with the session, or is cut off by an outage.
heartbeat_lapses ==
  /\ callStatus = "live" /\ ~callStale
  /\ IF at["session"] = "dead" THEN Sound ELSE Fault
  /\ callStale' = TRUE
  /\ UNCHANGED <<callStatus, deleted, due, purging, recVars, moved, files, at,
                 snapshot, history>>

\* The retention days pass: no finisher works that long.
expire ==
  /\ deleted /\ ~due /\ callStatus = "terminal" /\ ~Busy
  /\ due' = TRUE
  /\ UNCHANGED <<callStatus, deleted, purging, callStale, recVars, moved,
                 files, at, snapshot, history, budget>>

\* A restart of an idle server with another RECORDING_SPOOL_DIR.
move_spool_dir ==
  /\ ~moved /\ recPath /\ callStatus = "terminal" /\ faults < MaxFaults
  /\ \A f \in Finishers : at[f] \in {"idle", "dead"}
  /\ moved' = TRUE /\ Fault
  /\ UNCHANGED <<rowVars, recVars, files, at, snapshot, history>>

---------------------------------------------------------------------------
\* The user.

soft_delete_call ==
  /\ deletes < MaxDeletes /\ deletes' = deletes + 1
  /\ callStatus = "terminal" /\ ~deleted
  /\ deleted' = TRUE
  /\ callStale' = FALSE
  /\ recStatus' = IF recStatus = "none" THEN "none" ELSE "deleted"
  /\ recStale' = FALSE
  /\ UNCHANGED <<callStatus, due, purging, recKey, recPath, moved, files, at,
                 snapshot, history, crashes, faults>>

\* Fault: a restore that does not ask for the date.
restore_callLate ==
  /\ callStatus = "terminal" /\ deleted /\ ~purging
  /\ deleted' = FALSE /\ due' = FALSE /\ callStale' = FALSE
  /\ recStatus' = IF recStatus = "none" THEN "none"
                  ELSE IF recKey THEN "available" ELSE "failed"
  /\ recStale' = FALSE
  /\ UNCHANGED <<callStatus, purging, recKey, recPath, moved, files, at,
                 snapshot, history, budget>>

restore_call ==
  /\ callStatus = "terminal" /\ deleted /\ ~purging /\ ~due
  /\ deleted' = FALSE /\ callStale' = FALSE
  /\ recStatus' = IF recStatus = "none" THEN "none"
                  ELSE IF recKey THEN "available" ELSE "failed"
  /\ recStale' = FALSE
  /\ UNCHANGED <<callStatus, due, purging, recKey, recPath, moved, files, at,
                 snapshot, history, budget>>

---------------------------------------------------------------------------
\* call_maintenance_loop: each pass abandons, recovers and purges what is due.

abandon_stale_calls(l) ==
  /\ at[l] = "idle" /\ callStatus = "live" /\ callStale
  /\ callStatus' = "terminal"
  /\ UNCHANGED <<deleted, due, purging, callStale, recVars, moved, files, at,
                 snapshot, history, budget>>

\* Fault: only recordings whose finisher never began are recovered.
recoverRecordingOnly(l) ==
  /\ at[l] = "idle"
  /\ recStatus = "recording" /\ recStale
  /\ callStatus = "terminal" \/ callStale
  /\ recStatus' = "processing" /\ recStale' = FALSE
  /\ Go(l, IF recPath /\ moved THEN "reject" ELSE "begin")
  /\ UNCHANGED <<recKey, recPath>>
  /\ overlapped' = (overlapped \/ Busy)
  /\ UNCHANGED <<rowVars, moved, files, snapshot, leak, stranded, budget>>

\* recover_unfinished_recordings: the claim renews updated_at, which is the
\* lease, and nothing renews it again.
recover(l) ==
  /\ at[l] = "idle"
  /\ recStatus \in {"recording", "processing"} /\ recStale
  /\ callStatus = "terminal" \/ callStale
  /\ recStatus' = "processing" /\ recStale' = FALSE
  /\ Go(l, IF recPath /\ moved THEN "reject" ELSE "begin")
  /\ UNCHANGED <<recKey, recPath>>
  /\ overlapped' = (overlapped \/ Busy)
  /\ UNCHANGED <<rowVars, moved, files, snapshot, leak, stranded, budget>>

\* A spool path outside the configured directory fails the recording.
reject(l) ==
  /\ at[l] = "reject"
  /\ Go(l, "idle")
  /\ \/ mark_failed /\ Sound
     \/ Fault /\ UNCHANGED recVars
  /\ UNCHANGED <<rowVars, moved, files, snapshot, history>>

\* purge_expired_calls claims a due call in a transaction of its own.
claim_purge(l) ==
  /\ at[l] = "idle" /\ callStatus = "terminal" /\ due /\ ~purging
  /\ purging' = TRUE /\ callStale' = FALSE
  /\ snapshot' = [snapshot EXCEPT ![l] =
       (IF recKey THEN {"object"} ELSE {}) \cup (IF recPath THEN {"spool"} ELSE {})]
  /\ Go(l, "erase")
  /\ UNCHANGED <<callStatus, deleted, due, recVars, moved, files, history, budget>>

\* delete_file_strict, then the spool; a moved directory is an error each time.
erase(l) ==
  /\ at[l] = "erase"
  /\ \/ /\ ~(moved /\ "spool" \in snapshot[l])
        /\ files' = files \ snapshot[l] /\ Go(l, "row") /\ Sound
     \/ /\ moved /\ "spool" \in snapshot[l]
        /\ files' = files \ (snapshot[l] \ {"spool"}) /\ Go(l, "release") /\ Sound
     \/ Fault /\ Go(l, "release") /\ UNCHANGED files
  /\ UNCHANGED <<rowVars, recVars, moved, snapshot, history>>

\* purge_expired_call_row; the recording row goes with the call's.
purge_row(l) ==
  /\ at[l] = "row"
  /\ \/ /\ callStatus' = "gone" /\ Go(l, "idle") /\ Sound
        /\ recStatus' = "none" /\ recKey' = FALSE /\ recPath' = FALSE
        /\ recStale' = FALSE
     \/ Fault /\ Go(l, "release") /\ UNCHANGED <<callStatus, recVars>>
  /\ UNCHANGED <<deleted, due, purging, callStale, moved, files, snapshot, history>>

\* Fault: a failed purge keeps its claim.
releaseForgets(l) ==
  /\ at[l] = "release" /\ Go(l, "idle")
  /\ UNCHANGED <<rowVars, recVars, moved, files, snapshot, history, budget>>

\* The claim is given back for the next pass; if that raises, it stays.
release(l) ==
  /\ at[l] = "release" /\ Go(l, "idle")
  /\ \/ /\ Sound /\ purging' = (purging /\ ~deleted) /\ callStale' = FALSE
        /\ UNCHANGED stranded
     \/ Fault /\ stranded' = TRUE /\ UNCHANGED <<purging, callStale>>
  /\ UNCHANGED <<callStatus, deleted, due, recVars, moved, files, snapshot,
                 overlapped, leak>>

purge_expired_calls(l) ==
  claim_purge(l) \/ erase(l) \/ purge_row(l) \/ release(l)

---------------------------------------------------------------------------
\* Tasks die: one of them, or the server with all of them.  A session ends for
\* good; a restarted server has its maintenance tasks again.
crash(tasks) ==
  /\ crashes < MaxCrashes /\ crashes' = crashes + 1
  /\ \E f \in tasks : at[f] \notin {"idle", "dead"}
  /\ leak' = leak \cup UNION {Unnamed(f) : f \in tasks}
  /\ stranded' = (stranded \/ \E f \in tasks : at[f] \in Purging)
  /\ at' = [f \in Finishers |->
              IF f \notin tasks THEN at[f]
              ELSE IF f = "session" THEN "dead" ELSE "idle"]
  /\ UNCHANGED <<rowVars, recVars, moved, files, snapshot, overlapped, deletes, faults>>

Maintenance(l) ==
  abandon_stale_calls(l) \/ recover(l) \/ reject(l) \/ purge_expired_calls(l)

Deaths == {{f} : f \in Finishers} \cup {Finishers}

TimePasses == lease_lapses \/ heartbeat_lapses \/ expire

ArchiveNext ==
  \/ start \/ capture \/ (\E intact \in BOOLEAN : finalize(intact)) \/ end_call
  \/ \E f \in Finishers : finalize_recording(f)
  \/ TimePasses \/ move_spool_dir
  \/ soft_delete_call \/ restore_call
  \/ \E l \in Loops : Maintenance(l)
  \/ \E tasks \in Deaths : crash(tasks)

---------------------------------------------------------------------------
ArchiveTypeOK ==
  /\ callStatus \in {"live", "terminal", "gone"}
  /\ deleted \in BOOLEAN /\ due \in BOOLEAN /\ purging \in BOOLEAN
  /\ callStale \in BOOLEAN /\ recKey \in BOOLEAN /\ recPath \in BOOLEAN
  /\ recStale \in BOOLEAN /\ moved \in BOOLEAN
  /\ overlapped \in BOOLEAN /\ stranded \in BOOLEAN
  /\ recStatus \in RecordingStatuses
  /\ files \subseteq Files /\ leak \subseteq Files
  /\ at \in [Finishers -> Positions]
  /\ snapshot \in [Loops -> SUBSET Files]
  /\ deletes \in 0..MaxDeletes /\ crashes \in 0..MaxCrashes
  /\ faults \in 0..MaxFaults

\* _set_recording_state: "Soft deletion wins over any in-flight encoder/upload
\* transition": no finisher, recovery or failure brings the recording of a
\* deleted call back to another status.
DeletionWins == deleted => recStatus \in {"none", "deleted"}

\* create_recording_access and stream_call_recording hand out the object.
Playable ==
  callStatus # "gone" /\ ~deleted /\ recStatus = "available" /\ recKey

\* A recording that can be played has its object: neither a deletion that was
\* undone, nor a recovery after a crash, nor a purge that failed half-way
\* leaves a row that names nothing, unless two finishers overlapped.
PlayableHasObject == Playable /\ ~overlapped => "object" \in files

\* And purging a call leaves none of its audio behind, except for files whose
\* clean-up a crash or an error cut short when no row named them.
PurgedLeavesNothing ==
  callStatus = "gone" /\ ~overlapped => files \subseteq leak

FilesMatchRows == PlayableHasObject /\ PurgedLeavesNothing

Phase ==
  IF callStatus = "gone" THEN "gone"
  ELSE IF due THEN "due"
  ELSE IF deleted THEN "trashed" ELSE "kept"

Retention == INSTANCE CallRetention
  WITH Voidable <- TRUE, phase <- Phase, void <- overlapped,
       recorded <- (callStatus # "gone" /\ recKey /\ "object" \in files)

\* The rows, files and tasks keep the promise of deletion.
KeepsRetention == Retention!Spec
====
