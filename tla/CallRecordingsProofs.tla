---- MODULE CallRecordingsProofs ----
(***************************************************************************)
(* For any queue size, any number of chunks, maintenance tasks, deletions, *)
(* crashes and faults: a spool called intact is intact, deletion wins over *)
(* every finisher, a playable recording has its object, a purge leaves no  *)
(* audio that is not accounted for, and rows, files and tasks implement    *)
(* the promise of retention.                                               *)
(***************************************************************************)
EXTENDS CallRecordings, SequenceTheorems, TLAPS

---------------------------------------------------------------------------
\* The spool.  The _STOP mark is the last item of the queue, the counts agree,
\* and no chunk is anywhere but in the file, in the writer's hand or queued.

Marked == Len(audioQueue) > 0 /\ audioQueue[Len(audioQueue)] = "stop"
InHand == IF writer = "write" THEN 1 ELSE 0
Chunks == Len(audioQueue) - (IF Marked THEN 1 ELSE 0)

QueueInv ==
  /\ \A i \in 1..Len(audioQueue) : audioQueue[i] = "stop" =>
       i = Len(audioQueue) /\ finalizer \in {"join", "returned"}
  /\ unfinished = Len(audioQueue) + InHand
  /\ written + Chunks + InHand =< heard
  /\ ~failed => heard = written + Chunks + InHand

\* Only a failed writer stops before it found the mark.
WriterInv ==
  /\ writer = "report" => failed
  /\ writer = "done" => failed \/ (Len(audioQueue) = 0 /\ finalizer \in {"join", "returned"})
  /\ finalizer = "returned" => writer = "done"

SpoolInv == SpoolTypeOK /\ QueueInv /\ WriterInv

---------------------------------------------------------------------------
\* The archive.

Works(f) == at[f] \in Finishing \cup {"capture"}

\* A call that is due is deleted for good and nobody works on its recording.
RowInv ==
  /\ DeletionWins
  /\ due => deleted /\ ~Busy /\ callStatus # "live"
  /\ callStatus = "gone" => due
  /\ at["session"] = "idle" /\ recStatus = "none" /\ callStatus # "gone" => ~Busy
  /\ at["session"] \notin Purging

\* One purge at a time, of a call that is due, with what the row names.
PurgeInv ==
  /\ \A l \in Loops : at[l] \in Purging => purging /\ due /\ callStatus = "terminal"
  /\ \A l, m \in Loops : at[l] \in Purging /\ at[m] \in Purging => l = m
  /\ \A l \in Loops : at[l] = "erase" =>
       /\ recKey => "object" \in snapshot[l]
       /\ recPath => "spool" \in snapshot[l]

\* Without an overlap one finisher works at a time, the object is stored before
\* the row names it, and the row names the spool until it names the object.
RecordingInv ==
  ~overlapped =>
    /\ \A f, g \in Finishers : Works(f) /\ Works(g) => f = g
    /\ recKey => \A f \in Finishers : Works(f) => at[f] = "unlink"
    /\ recKey /\ ~due => "object" \in files /\ recStatus \in {"available", "deleted"}
    /\ \A f \in Finishers :
         /\ at[f] = "commit" => "object" \in files
         /\ at[f] \in {"capture", "encode", "upload", "commit", "undo"} => recPath
         /\ at[f] = "unlink" => recKey

\* Without an overlap a file is named by the row, owned by the finisher that
\* made it or left by one that was cut short.
FilesInv ==
  ~overlapped =>
    /\ callStatus # "gone" =>
         /\ "object" \in files \ leak =>
              recKey \/ \E f \in Finishers : at[f] \in {"commit", "undo"}
         /\ "spool" \in files \ leak =>
              recPath \/ \E f \in Finishers : at[f] \in {"undo", "unlink"}
         /\ "tmp" \in files \ leak =>
              \E f \in Finishers : at[f] \in {"upload", "commit", "undo", "unlink", "fail"}
    /\ \A l \in Loops : at[l] = "row" => files \subseteq leak
    /\ callStatus = "gone" => files \subseteq leak

ArchiveInv == ArchiveTypeOK /\ RowInv /\ PurgeInv /\ RecordingInv /\ FilesInv

RecordingsInv == SpoolInv /\ ArchiveInv

---------------------------------------------------------------------------
\* What taking the first item leaves of the queue.
LEMMA TakenItem ==
  ASSUME NEW q \in Seq({"chunk", "stop"}), q # <<>>
  PROVE  /\ Tail(q) \in Seq({"chunk", "stop"})
         /\ Len(Tail(q)) = Len(q) - 1 /\ Len(q) \in Nat \ {0}
         /\ \A i \in 1..Len(Tail(q)) : Tail(q)[i] = q[i + 1]
         /\ Head(q) = q[1] /\ q[1] \in {"chunk", "stop"}
<1>1. /\ Tail(q) \in Seq({"chunk", "stop"}) /\ Len(Tail(q)) = Len(q) - 1
      /\ \A i \in 1..Len(Tail(q)) : Tail(q)[i] = q[i + 1]
  BY HeadTailProperties
<1>2. Len(q) \in Nat \ {0}
  BY EmptySeq
<1>3. Head(q) = q[1] /\ q[1] \in {"chunk", "stop"}
  BY <1>2
<1> QED
  BY <1>1, <1>2, <1>3

LEMMA SpoolStarts ==
  ASSUME audioQueue \in Seq({"chunk", "stop"}), Len(audioQueue) = 0, unfinished = 0,
         writer = "get", failed = FALSE,
         finalizer = "open", heard = 0, written = 0
  PROVE  SpoolInv
<1>1. SpoolTypeOK
  <2>1. failed \in BOOLEAN
    OBVIOUS
  <2>2. 0 =< SpoolCapacity /\ 0 \in 0..MaxChunks
    BY RecordingSpoolAssumption
  <2> QED
    BY <2>1, <2>2 DEF SpoolTypeOK, WriterStates, FinalizerStates
<1>2. QueueInv /\ WriterInv
  BY DEF QueueInv, WriterInv, Marked, InHand, Chunks
<1> QED
  BY <1>1, <1>2 DEF SpoolInv

\* The counts and the mark, for a state whose queue is the appended one.
LEMMA AudioKeepsSpoolInv ==
  ASSUME SpoolInv, accept_audio \/ reject_format
  PROVE  SpoolInv'
<1> USE DEF SpoolInv, SpoolTypeOK
<1>1. /\ finalizer = "open" /\ heard < MaxChunks /\ heard' = heard + 1
      /\ UNCHANGED <<writer, finalizer, written>>
  BY DEF accept_audio, reject_format
<1>2. CASE failed' = TRUE /\ UNCHANGED <<audioQueue, unfinished>>
  <2>1. SpoolTypeOK'
    BY <1>1, <1>2, RecordingSpoolAssumption
  <2>2. QueueInv' /\ WriterInv'
    BY <1>1, <1>2 DEF QueueInv, WriterInv, Marked, InHand, Chunks
  <2> QED
    BY <2>1, <2>2
<1>3. CASE /\ ~failed /\ ~Full /\ UNCHANGED failed
           /\ audioQueue' = Append(audioQueue, "chunk") /\ unfinished' = unfinished + 1
  <2>1. /\ audioQueue' \in Seq({"chunk", "stop"})
        /\ Len(audioQueue') = Len(audioQueue) + 1 /\ audioQueue' # <<>>
        /\ audioQueue'[Len(audioQueue) + 1] = "chunk"
        /\ \A i \in 1..Len(audioQueue) : audioQueue'[i] = audioQueue[i]
    BY <1>3, AppendProperties
  <2>2. SpoolTypeOK'
    BY <1>1, <1>3, <2>1, RecordingSpoolAssumption DEF Full
  <2>3. \A i \in 1..Len(audioQueue) : audioQueue[i] # "stop"
    BY <1>1 DEF QueueInv
  <2>4. ~Marked /\ ~Marked'
    BY <2>1, <2>3 DEF Marked
  <2>5. QueueInv'
    BY <1>1, <1>3, <2>1, <2>3, <2>4 DEF QueueInv, InHand, Chunks
  <2>6. WriterInv'
    BY <1>1, <1>3 DEF WriterInv
  <2> QED
    BY <2>2, <2>5, <2>6
<1> QED
  BY <1>2, <1>3 DEF accept_audio, reject_format

LEMMA WriterKeepsSpoolInv ==
  ASSUME SpoolInv, WriterNext
  PROVE  SpoolInv'
<1> USE DEF SpoolInv, SpoolTypeOK
<1>1. CASE take
  <2>1. /\ writer = "get" /\ audioQueue # <<>> /\ audioQueue' = Tail(audioQueue)
        /\ UNCHANGED <<failed, finalizer, heard, written>>
    BY <1>1 DEF take
  <2>2. /\ Tail(audioQueue) \in Seq({"chunk", "stop"})
        /\ Len(Tail(audioQueue)) = Len(audioQueue) - 1 /\ Len(audioQueue) \in Nat \ {0}
        /\ \A i \in 1..Len(Tail(audioQueue)) : Tail(audioQueue)[i] = audioQueue[i + 1]
        /\ Head(audioQueue) = audioQueue[1] /\ audioQueue[1] \in {"chunk", "stop"}
    BY <2>1, TakenItem
  <2>3. CASE Head(audioQueue) = "stop"
    <3>1. /\ Len(audioQueue) = 1 /\ Len(audioQueue') = 0 /\ finalizer \in {"join", "returned"}
          /\ Marked
      <4>1. 1 \in 1..Len(audioQueue) /\ audioQueue[1] = "stop"
        BY <2>2, <2>3
      <4>2. 1 = Len(audioQueue) /\ finalizer \in {"join", "returned"}
        BY <4>1 DEF QueueInv
      <4> QED
        BY <2>1, <2>2, <4>1, <4>2 DEF Marked
    <3>2. writer' = "done" /\ unfinished' = unfinished - 1
      BY <1>1, <2>3 DEF take
    <3>3. SpoolTypeOK'
      <4>1. unfinished' = 0 /\ audioQueue' \in Seq({"chunk", "stop"})
        BY <2>1, <2>2, <3>1, <3>2 DEF QueueInv, InHand
      <4> QED
        BY <2>1, <3>1, <3>2, <4>1, RecordingSpoolAssumption DEF WriterStates
    <3>4. ~Marked' /\ unfinished' = 0 /\ Chunks = 0 /\ InHand = 0
      BY <2>1, <3>1, <3>2 DEF QueueInv, Marked, Chunks, InHand
    <3>5. QueueInv' /\ WriterInv'
      BY <2>1, <3>1, <3>2, <3>4 DEF QueueInv, WriterInv, InHand, Chunks
    <3> QED
      BY <3>3, <3>5
  <2>4. CASE Head(audioQueue) # "stop"
    <3>1. writer' = "write" /\ unfinished' = unfinished
      BY <1>1, <2>4 DEF take
    <3>2. SpoolTypeOK'
      <4>1. Len(audioQueue') =< SpoolCapacity
        BY <2>1, <2>2, RecordingSpoolAssumption
      <4> QED
        BY <2>1, <2>2, <3>1, <4>1 DEF WriterStates
    <3>3. Marked' = Marked
      BY <2>1, <2>2, <2>4 DEF Marked
    <3>4. \A i \in 1..Len(audioQueue') : audioQueue'[i] = "stop" =>
            i = Len(audioQueue') /\ finalizer' \in {"join", "returned"}
      <4> SUFFICES ASSUME NEW i \in 1..Len(audioQueue'), audioQueue'[i] = "stop"
                   PROVE  i = Len(audioQueue') /\ finalizer' \in {"join", "returned"}
        OBVIOUS
      <4>1. i + 1 \in 1..Len(audioQueue) /\ audioQueue[i + 1] = "stop"
        BY <2>1, <2>2
      <4>2. i + 1 = Len(audioQueue) /\ finalizer \in {"join", "returned"}
        BY <4>1 DEF QueueInv
      <4>3. Len(audioQueue') = Len(audioQueue) - 1 /\ finalizer' = finalizer
        BY <2>1, <2>2
      <4>4. i \in Nat /\ Len(audioQueue) \in Nat
        BY <2>2
      <4> QED
        BY <4>2, <4>3, <4>4
    <3>5. QueueInv' /\ WriterInv'
      BY <2>1, <2>2, <3>1, <3>3, <3>4 DEF QueueInv, WriterInv, InHand, Chunks
    <3> QED
      BY <3>2, <3>5
  <2> QED
    BY <2>3, <2>4
<1>2. CASE write \/ write_error
  <2>1. /\ writer = "write" /\ unfinished' = unfinished - 1
        /\ \/ writer' = "get" /\ written' = written + 1 /\ failed' = failed
           \/ writer' = "report" /\ written' = written /\ failed' = TRUE
        /\ UNCHANGED <<audioQueue, finalizer, heard>>
    BY <1>2 DEF write, write_error
  <2>2. unfinished = Len(audioQueue) + 1 /\ written + 1 =< heard
    BY <2>1 DEF QueueInv, InHand, Chunks, Marked
  <2>3. SpoolTypeOK'
    <3>1. Len(audioQueue) \in Nat
      BY LenProperties
    <3>2. written' \in 0..MaxChunks
      BY <2>1, <2>2, RecordingSpoolAssumption
    <3>3. unfinished' \in Nat
      BY <2>1, <2>2, <3>1
    <3>4. failed' \in BOOLEAN
      BY <2>1
    <3> QED
      BY <2>1, <3>2, <3>3, <3>4 DEF WriterStates
  <2>4. QueueInv' /\ WriterInv'
    BY <2>1, <2>2 DEF QueueInv, WriterInv, Marked, InHand, Chunks
  <2> QED
    BY <2>3, <2>4
<1>3. CASE drain
  <2>1. /\ writer = "report" /\ writer' = "done" /\ failed
        /\ audioQueue' \in Seq({"chunk", "stop"}) /\ Len(audioQueue') = 0
        /\ unfinished' = unfinished - Len(audioQueue)
        /\ UNCHANGED <<failed, finalizer, heard, written>>
    BY <1>3, EmptySeq DEF drain, WriterInv
  <2>2. unfinished' = 0 /\ written =< heard
    BY <2>1 DEF QueueInv, InHand, Chunks, Marked
  <2>3. SpoolTypeOK'
    BY <2>1, <2>2, RecordingSpoolAssumption DEF WriterStates
  <2>4. QueueInv' /\ WriterInv'
    BY <2>1, <2>2 DEF QueueInv, WriterInv, Marked, InHand, Chunks
  <2> QED
    BY <2>3, <2>4
<1> QED
  BY <1>1, <1>2, <1>3 DEF WriterNext

\* The mark is put into a queue that has none.
LEMMA MarkKeepsSpoolInv ==
  ASSUME SpoolInv, finalizer \in {"open", "put"}, ~Full, put_stop,
         writer # "done" \/ failed, UNCHANGED <<writer, failed, heard, written>>
  PROVE  SpoolInv'
<1> USE DEF SpoolInv, SpoolTypeOK
<1>1. /\ audioQueue' \in Seq({"chunk", "stop"})
      /\ Len(audioQueue') = Len(audioQueue) + 1 /\ audioQueue' # <<>>
      /\ audioQueue'[Len(audioQueue) + 1] = "stop"
      /\ \A i \in 1..Len(audioQueue) : audioQueue'[i] = audioQueue[i]
  BY AppendProperties DEF put_stop
<1>2. unfinished' = unfinished + 1 /\ finalizer' = "join"
  BY DEF put_stop
<1>3. SpoolTypeOK'
  BY <1>1, <1>2, RecordingSpoolAssumption DEF Full, FinalizerStates
<1>4. \A i \in 1..Len(audioQueue) : audioQueue[i] # "stop"
  BY DEF QueueInv
<1>5. ~Marked /\ Marked'
  BY <1>1, <1>4 DEF Marked
<1>6. QueueInv'
  <2>1. \A i \in 1..Len(audioQueue') : audioQueue'[i] = "stop" => i = Len(audioQueue')
    BY <1>1, <1>4
  <2>2. Chunks' = Chunks /\ InHand' = InHand /\ Chunks \in Int /\ InHand \in Int
    BY <1>1, <1>5, LenProperties DEF Chunks, InHand
  <2> QED
    BY <1>1, <1>2, <2>1, <2>2 DEF QueueInv
<1>7. WriterInv'
  BY <1>2 DEF WriterInv
<1> QED
  BY <1>3, <1>6, <1>7

LEMMA FinalizerKeepsSpoolInv ==
  ASSUME SpoolInv, FinalizerNext
  PROVE  SpoolInv'
<1> USE DEF SpoolInv, SpoolTypeOK
<1>1. CASE close /\ ~Full /\ writer # "done"
  BY <1>1, MarkKeepsSpoolInv DEF close
<1>2. CASE resume_put
  BY <1>2, MarkKeepsSpoolInv DEF resume_put, WriterInv
<1>3. CASE (close /\ (Full \/ writer = "done")) \/ join
  <2>1. /\ finalizer' \in {"put", "returned"} /\ finalizer \in {"open", "join"}
        /\ finalizer = "open" /\ writer = "done" => failed
        /\ finalizer' = "returned" => writer = "done"
        /\ finalizer' = "put" => finalizer = "open"
        /\ UNCHANGED <<audioQueue, unfinished, writer, failed, heard, written>>
    BY <1>3 DEF close, join, WriterInv
  <2>2. SpoolTypeOK'
    BY <2>1, RecordingSpoolAssumption DEF FinalizerStates
  <2>3. QueueInv'
    BY <2>1 DEF QueueInv, Marked, InHand, Chunks
  <2>4. WriterInv'
    BY <2>1 DEF WriterInv
  <2> QED
    BY <2>2, <2>3, <2>4
<1> QED
  BY <1>1, <1>2, <1>3 DEF FinalizerNext

\* The session's own steps.
LEMMA SessionKeepsArchiveInv ==
  ASSUME ArchiveInv, NEW intact, start \/ capture \/ finalize(intact) \/ end_call
  PROVE  ArchiveInv'
<1> USE DEF ArchiveInv, Go, Fault, Sound, rowVars, recVars, history, budget
<1>1. ArchiveTypeOK'
  <2> USE DEF start, mark_failed, set_recording_state, set_state_refused, Refused, capture,
              finalize, end_call
  <2>1. at' \in [Finishers -> Positions]
    BY DEF ArchiveTypeOK, Positions, Finishing, Purging, Finishers
  <2>2. /\ recStatus' \in RecordingStatuses
        /\ recKey' \in BOOLEAN /\ recPath' \in BOOLEAN /\ recStale' \in BOOLEAN
    BY DEF ArchiveTypeOK, RecordingStatuses
  <2>3. deletes' \in 0..MaxDeletes /\ crashes' \in 0..MaxCrashes /\ faults' \in 0..MaxFaults
    BY CallArchiveAssumption DEF ArchiveTypeOK
  <2>4. files' \subseteq Files /\ leak' \subseteq Files /\ snapshot' \in [Loops -> SUBSET Files]
    BY DEF ArchiveTypeOK, Files
  <2>5. /\ callStatus' \in {"live", "terminal", "gone"}
        /\ deleted' \in BOOLEAN /\ due' \in BOOLEAN /\ purging' \in BOOLEAN
        /\ callStale' \in BOOLEAN /\ moved' \in BOOLEAN
    BY DEF ArchiveTypeOK
  <2>6. overlapped' \in BOOLEAN /\ stranded' \in BOOLEAN
    BY DEF ArchiveTypeOK
  <2> QED
    BY ONLY <2>1, <2>2, <2>3, <2>4, <2>5, <2>6 DEF ArchiveTypeOK
<1> USE CallArchiveAssumption DEF ArchiveTypeOK, RowInv, PurgeInv, RecordingInv, FilesInv,
        DeletionWins, Works, Busy, Finishing, Purging, Finishers
<1>2. CASE start
  BY <1>1, <1>2 DEF start, mark_failed, set_recording_state, set_state_refused, Refused
<1>3. CASE capture
  BY <1>1, <1>3 DEF capture
<1>4. CASE finalize(intact)
  BY <1>1, <1>4 DEF finalize, mark_failed, set_recording_state, set_state_refused, Refused
<1>5. CASE end_call
  BY <1>1, <1>5 DEF end_call
<1> QED
  BY ONLY <1>1, <1>2, <1>3, <1>4, <1>5, start \/ capture \/ finalize(intact) \/ end_call

\* The steps of a finisher.
LEMMA FinisherKeepsArchiveInv ==
  ASSUME ArchiveInv, NEW f \in Finishers, finalize_recording(f)
  PROVE  ArchiveInv'
<1> USE DEF ArchiveInv, Go, Fault, Sound, rowVars, recVars, history, budget
<1>1. ArchiveTypeOK'
  <2> USE DEF begin, set_recording_state, set_state_refused, Refused, Done, encode, upload,
              commit, undo, unlink, fail, mark_failed, finalize_recording
  <2>1. at' \in [Finishers -> Positions]
    BY DEF ArchiveTypeOK, Positions, Finishing, Purging, Finishers
  <2>2. /\ recStatus' \in RecordingStatuses
        /\ recKey' \in BOOLEAN /\ recPath' \in BOOLEAN /\ recStale' \in BOOLEAN
    BY DEF ArchiveTypeOK, RecordingStatuses
  <2>3. deletes' \in 0..MaxDeletes /\ crashes' \in 0..MaxCrashes /\ faults' \in 0..MaxFaults
    BY CallArchiveAssumption DEF ArchiveTypeOK
  <2>4. files' \subseteq Files /\ leak' \subseteq Files /\ snapshot' \in [Loops -> SUBSET Files]
    BY DEF ArchiveTypeOK, Files
  <2>5. /\ callStatus' \in {"live", "terminal", "gone"}
        /\ deleted' \in BOOLEAN /\ due' \in BOOLEAN /\ purging' \in BOOLEAN
        /\ callStale' \in BOOLEAN /\ moved' \in BOOLEAN
    BY DEF ArchiveTypeOK
  <2>6. overlapped' \in BOOLEAN /\ stranded' \in BOOLEAN
    BY DEF ArchiveTypeOK
  <2> QED
    BY ONLY <2>1, <2>2, <2>3, <2>4, <2>5, <2>6 DEF ArchiveTypeOK
<1> USE CallArchiveAssumption DEF ArchiveTypeOK, RowInv, PurgeInv, RecordingInv, FilesInv,
        DeletionWins, Works, Busy, Finishing, Purging, Finishers
<1>2. CASE begin(f)
  BY <1>1, <1>2 DEF begin, set_recording_state, set_state_refused, Refused, Done
<1>3. CASE encode(f)
  BY <1>1, <1>3 DEF encode
<1>4. CASE upload(f)
  BY <1>1, <1>4 DEF upload
<1>5. CASE commit(f)
  BY <1>1, <1>5 DEF commit, set_recording_state, set_state_refused, Refused
<1>6. CASE undo(f)
  BY <1>1, <1>6 DEF undo, Done
<1>7. CASE unlink(f)
  BY <1>1, <1>7 DEF unlink, Done
<1>8. CASE fail(f)
  BY <1>1, <1>8 DEF fail, mark_failed, set_recording_state, set_state_refused, Refused, Done
<1> QED
  BY ONLY <1>1, <1>2, <1>3, <1>4, <1>5, <1>6, <1>7, <1>8, finalize_recording(f) DEF
          finalize_recording

\* Time and the user.
LEMMA UserKeepsArchiveInv ==
  ASSUME ArchiveInv, TimePasses \/ move_spool_dir \/ soft_delete_call \/ restore_call
  PROVE  ArchiveInv'
<1> USE DEF ArchiveInv, Go, Fault, Sound, rowVars, recVars, history, budget
<1>1. ArchiveTypeOK'
  <2> USE DEF lease_lapses, heartbeat_lapses, expire, move_spool_dir, soft_delete_call,
              restore_call, TimePasses
  <2>1. at' \in [Finishers -> Positions]
    BY DEF ArchiveTypeOK, Positions, Finishing, Purging, Finishers
  <2>2. /\ recStatus' \in RecordingStatuses
        /\ recKey' \in BOOLEAN /\ recPath' \in BOOLEAN /\ recStale' \in BOOLEAN
    BY DEF ArchiveTypeOK, RecordingStatuses
  <2>3. deletes' \in 0..MaxDeletes /\ crashes' \in 0..MaxCrashes /\ faults' \in 0..MaxFaults
    BY CallArchiveAssumption DEF ArchiveTypeOK
  <2>4. files' \subseteq Files /\ leak' \subseteq Files /\ snapshot' \in [Loops -> SUBSET Files]
    BY DEF ArchiveTypeOK, Files
  <2>5. /\ callStatus' \in {"live", "terminal", "gone"}
        /\ deleted' \in BOOLEAN /\ due' \in BOOLEAN /\ purging' \in BOOLEAN
        /\ callStale' \in BOOLEAN /\ moved' \in BOOLEAN
    BY DEF ArchiveTypeOK
  <2>6. overlapped' \in BOOLEAN /\ stranded' \in BOOLEAN
    BY DEF ArchiveTypeOK
  <2> QED
    BY ONLY <2>1, <2>2, <2>3, <2>4, <2>5, <2>6 DEF ArchiveTypeOK
<1> USE CallArchiveAssumption DEF ArchiveTypeOK, RowInv, PurgeInv, RecordingInv, FilesInv,
        DeletionWins, Works, Busy, Finishing, Purging, Finishers
<1>2. CASE lease_lapses
  BY <1>1, <1>2 DEF lease_lapses
<1>3. CASE heartbeat_lapses
  BY <1>1, <1>3 DEF heartbeat_lapses
<1>4. CASE expire
  BY <1>1, <1>4 DEF expire
<1>5. CASE move_spool_dir
  BY <1>1, <1>5 DEF move_spool_dir
<1>6. CASE soft_delete_call
  BY <1>1, <1>6 DEF soft_delete_call
<1>7. CASE restore_call
  BY <1>1, <1>7 DEF restore_call
<1> QED
  BY ONLY <1>1, <1>2, <1>3, <1>4, <1>5, <1>6, <1>7, TimePasses \/ move_spool_dir \/
          soft_delete_call \/ restore_call DEF TimePasses

\* The passes of a maintenance task.
LEMMA MaintenanceKeepsArchiveInv ==
  ASSUME ArchiveInv, NEW f \in Loops, Maintenance(f)
  PROVE  ArchiveInv'
<1> USE DEF ArchiveInv, Go, Fault, Sound, rowVars, recVars, history, budget
<1>1. ArchiveTypeOK'
  <2> USE DEF abandon_stale_calls, recover, reject, mark_failed, set_recording_state,
              set_state_refused, Refused, claim_purge, erase, purge_row, release, Maintenance,
              purge_expired_calls
  <2>1. at' \in [Finishers -> Positions]
    BY DEF ArchiveTypeOK, Positions, Finishing, Purging, Finishers
  <2>2. /\ recStatus' \in RecordingStatuses
        /\ recKey' \in BOOLEAN /\ recPath' \in BOOLEAN /\ recStale' \in BOOLEAN
    BY DEF ArchiveTypeOK, RecordingStatuses
  <2>3. deletes' \in 0..MaxDeletes /\ crashes' \in 0..MaxCrashes /\ faults' \in 0..MaxFaults
    BY CallArchiveAssumption DEF ArchiveTypeOK
  <2>4. files' \subseteq Files /\ leak' \subseteq Files /\ snapshot' \in [Loops -> SUBSET Files]
    <3>1. files' \subseteq Files /\ leak' \subseteq Files
      BY DEF ArchiveTypeOK
    <3>2. CASE claim_purge(f)
      <4>1. snapshot' = [snapshot EXCEPT ![f] =
              (IF recKey THEN {"object"} ELSE {}) \cup (IF recPath THEN {"spool"} ELSE {})]
        BY <3>2
      <4>2. (IF recKey THEN {"object"} ELSE {}) \cup (IF recPath THEN {"spool"} ELSE {})
              \in SUBSET Files
        BY DEF Files
      <4> QED
        BY <3>1, <4>1, <4>2 DEF ArchiveTypeOK
    <3>3. CASE ~claim_purge(f)
      BY <3>1, <3>3 DEF ArchiveTypeOK
    <3> QED
      BY <3>2, <3>3
  <2>5. /\ callStatus' \in {"live", "terminal", "gone"}
        /\ deleted' \in BOOLEAN /\ due' \in BOOLEAN /\ purging' \in BOOLEAN
        /\ callStale' \in BOOLEAN /\ moved' \in BOOLEAN
    BY DEF ArchiveTypeOK
  <2>6. overlapped' \in BOOLEAN /\ stranded' \in BOOLEAN
    BY DEF ArchiveTypeOK
  <2> QED
    BY ONLY <2>1, <2>2, <2>3, <2>4, <2>5, <2>6 DEF ArchiveTypeOK
<1> USE CallArchiveAssumption DEF ArchiveTypeOK, RowInv, PurgeInv, RecordingInv, FilesInv,
        DeletionWins, Works, Busy, Finishing, Purging, Finishers
<1>2. CASE abandon_stale_calls(f)
  BY <1>1, <1>2 DEF abandon_stale_calls
<1>3. CASE recover(f)
  BY <1>1, <1>3 DEF recover
<1>4. CASE reject(f)
  BY <1>1, <1>4 DEF reject, mark_failed, set_recording_state, set_state_refused, Refused
<1>5. CASE claim_purge(f)
  BY <1>1, <1>5 DEF claim_purge
<1>6. CASE erase(f)
  <2>1. RowInv' /\ PurgeInv' /\ RecordingInv'
    BY <1>1, <1>6 DEF erase
  <2>2. ~Busy /\ due /\ callStatus = "terminal"
    BY <1>6 DEF erase
  <2>3. ~overlapped => files \ leak \subseteq snapshot[f]
    BY <1>6, <2>2 DEF erase, Files
  <2>4. FilesInv'
    BY <1>6, <2>2, <2>3 DEF erase
  <2> QED
    BY <1>1, <2>1, <2>4
<1>7. CASE purge_row(f)
  BY <1>1, <1>7 DEF purge_row
<1>8. CASE release(f)
  BY <1>1, <1>8 DEF release
<1> QED
  BY ONLY <1>1, <1>2, <1>3, <1>4, <1>5, <1>6, <1>7, <1>8, Maintenance(f) DEF Maintenance,
          purge_expired_calls

\* Tasks die.
LEMMA CrashKeepsArchiveInv ==
  ASSUME ArchiveInv, NEW tasks \in Deaths, crash(tasks)
  PROVE  ArchiveInv'
<1> USE DEF ArchiveInv, Go, Fault, Sound, rowVars, recVars, history, budget
<1>1. ArchiveTypeOK'
  <2> USE DEF crash, Deaths, Unnamed
  <2>1. at' \in [Finishers -> Positions]
    BY DEF ArchiveTypeOK, Positions, Finishing, Purging, Finishers
  <2>2. /\ recStatus' \in RecordingStatuses
        /\ recKey' \in BOOLEAN /\ recPath' \in BOOLEAN /\ recStale' \in BOOLEAN
    BY DEF ArchiveTypeOK, RecordingStatuses
  <2>3. deletes' \in 0..MaxDeletes /\ crashes' \in 0..MaxCrashes /\ faults' \in 0..MaxFaults
    BY CallArchiveAssumption DEF ArchiveTypeOK
  <2>4. files' \subseteq Files /\ leak' \subseteq Files /\ snapshot' \in [Loops -> SUBSET Files]
    BY DEF ArchiveTypeOK, Files
  <2>5. /\ callStatus' \in {"live", "terminal", "gone"}
        /\ deleted' \in BOOLEAN /\ due' \in BOOLEAN /\ purging' \in BOOLEAN
        /\ callStale' \in BOOLEAN /\ moved' \in BOOLEAN
    BY DEF ArchiveTypeOK
  <2>6. overlapped' \in BOOLEAN /\ stranded' \in BOOLEAN
    BY DEF ArchiveTypeOK
  <2> QED
    BY ONLY <2>1, <2>2, <2>3, <2>4, <2>5, <2>6 DEF ArchiveTypeOK
<1> USE CallArchiveAssumption DEF ArchiveTypeOK, RowInv, PurgeInv, RecordingInv, FilesInv,
        DeletionWins, Works, Busy, Finishing, Purging, Finishers
<1>2. RowInv' /\ PurgeInv' /\ RecordingInv'
  BY DEF crash, Deaths
<1>3. FilesInv'
  BY DEF crash, Deaths, Unnamed
<1> QED
  BY ONLY <1>1, <1>2, <1>3 DEF ArchiveInv

---------------------------------------------------------------------------
\* Writer and archive together.
LEMMA InitRecordingsInv == Init => RecordingsInv
<1> SUFFICES ASSUME Init PROVE RecordingsInv
  OBVIOUS
<1>1. SpoolInv
  BY SpoolStarts, EmptySeq DEF Init, SpoolInit
<1>2. ArchiveTypeOK
  <2>1. at \in [Finishers -> Positions] /\ snapshot \in [Loops -> SUBSET Files]
    BY DEF Init, ArchiveInit, Positions
  <2>2. deletes \in 0..MaxDeletes /\ crashes \in 0..MaxCrashes /\ faults \in 0..MaxFaults
    BY CallArchiveAssumption DEF Init, ArchiveInit
  <2> QED
    BY <2>1, <2>2 DEF Init, ArchiveInit, ArchiveTypeOK, RecordingStatuses
<1>3. RowInv /\ PurgeInv /\ RecordingInv /\ FilesInv
  BY DEF Init, ArchiveInit, RowInv, PurgeInv, RecordingInv, FilesInv, DeletionWins, Works, Busy,
         Finishing, Purging, Finishers
<1> QED
  BY <1>1, <1>2, <1>3 DEF RecordingsInv, ArchiveInv

LEMMA SpoolKept ==
  ASSUME SpoolInv, UNCHANGED spoolVars
  PROVE  SpoolInv'
<1> QED
  BY DEF spoolVars, SpoolInv, SpoolTypeOK, QueueInv, WriterInv, Marked, Chunks, InHand

LEMMA ArchiveKept ==
  ASSUME ArchiveInv, UNCHANGED archiveVars
  PROVE  ArchiveInv'
<1> QED
  BY DEF archiveVars, rowVars, recVars, history, budget, ArchiveInv, ArchiveTypeOK, RowInv,
         PurgeInv, RecordingInv, FilesInv, DeletionWins, Works, Busy

LEMMA NewWriterIsSound == WriterGone => SpoolInv'
<1> SUFFICES ASSUME WriterGone PROVE SpoolInv'
  OBVIOUS
<1>1. /\ audioQueue' \in Seq({"chunk", "stop"}) /\ Len(audioQueue') = 0
      /\ unfinished' = 0 /\ writer' = "get" /\ failed' = FALSE /\ finalizer' = "open"
      /\ heard' = 0 /\ written' = 0
  BY EmptySeq DEF WriterGone
<1>2. SpoolTypeOK'
  <2>1. failed' \in BOOLEAN
    BY <1>1
  <2>2. 0 =< SpoolCapacity /\ 0 \in 0..MaxChunks
    BY RecordingSpoolAssumption
  <2> QED
    BY <1>1, <2>1, <2>2 DEF SpoolTypeOK, WriterStates, FinalizerStates
<1>3. QueueInv' /\ WriterInv'
  BY <1>1 DEF QueueInv, WriterInv, Marked, InHand, Chunks
<1> QED
  BY <1>2, <1>3 DEF SpoolInv

LEMMA NextKeepsRecordingsInv == RecordingsInv /\ [Next]_vars => RecordingsInv'
<1> SUFFICES ASSUME RecordingsInv, [Next]_vars PROVE RecordingsInv'
  OBVIOUS
<1> USE DEF RecordingsInv
<1>1. CASE SpoolStep
  <2>1. SpoolInv'
    BY <1>1, AudioKeepsSpoolInv, WriterKeepsSpoolInv, FinalizerKeepsSpoolInv
       DEF SpoolStep, SpoolNext
  <2>2. ArchiveInv'
    BY <1>1, SessionKeepsArchiveInv, ArchiveKept DEF SpoolStep
  <2> QED
    BY <2>1, <2>2
<1>2. CASE HandOver
  BY <1>2, SessionKeepsArchiveInv, NewWriterIsSound DEF HandOver
<1>3. CASE Crash
  BY <1>3, CrashKeepsArchiveInv, NewWriterIsSound, SpoolKept DEF Crash
<1>4. CASE ArchiveStep
  <2>1. SpoolInv'
    BY <1>4, SpoolKept DEF ArchiveStep
  <2>2. ArchiveInv'
    BY <1>4, SessionKeepsArchiveInv, FinisherKeepsArchiveInv, UserKeepsArchiveInv,
       MaintenanceKeepsArchiveInv DEF ArchiveStep
  <2> QED
    BY <2>1, <2>2
<1>5. CASE UNCHANGED vars
  BY <1>5, SpoolKept, ArchiveKept DEF vars
<1> QED
  BY <1>1, <1>2, <1>3, <1>4, <1>5 DEF Next

\* The inductive invariant of a recording session holds in every reachable state.
THEOREM RecordingsAlwaysSound == Spec => []RecordingsInv
<1> QED
  BY InitRecordingsInv, NextKeepsRecordingsInv, PTL DEF Spec

\* The state of the writer, the rows, the files and the tasks has its type.
THEOREM RecordingsTypeCorrect == Spec => []TypeOK
<1>1. RecordingsInv => TypeOK
  BY DEF RecordingsInv, SpoolInv, ArchiveInv, TypeOK
<1> QED
  BY <1>1, RecordingsAlwaysSound, PTL

\* A spool that finalize() calls intact has every chunk the session emitted,
\* whatever queue, writer and teardown were doing.
THEOREM IntactSpoolIsComplete == Spec => []SpoolComplete
<1>1. RecordingsInv => SpoolComplete
  <2> SUFFICES ASSUME RecordingsInv, finalizer = "returned", ~failed
               PROVE  written = heard /\ audioQueue = <<>>
    BY DEF SpoolComplete
  <2>1. writer = "done" /\ Len(audioQueue) = 0
    BY DEF RecordingsInv, SpoolInv, WriterInv
  <2>2. audioQueue \in Seq({"chunk", "stop"}) /\ written \in Nat /\ heard \in Nat
    BY RecordingSpoolAssumption DEF RecordingsInv, SpoolInv, SpoolTypeOK
  <2>3. audioQueue = <<>>
    BY <2>1, <2>2, EmptySeq
  <2>4. heard = written + 0 + 0
    BY <2>1 DEF RecordingsInv, SpoolInv, QueueInv, Chunks, InHand, Marked
  <2> QED
    BY <2>2, <2>3, <2>4
<1> QED
  BY <1>1, RecordingsAlwaysSound, PTL

\* No finisher, recovery or failure brings the recording of a deleted call back.
THEOREM DeletionAlwaysWins == Spec => []DeletionWins
<1>1. RecordingsInv => DeletionWins
  BY DEF RecordingsInv, ArchiveInv, RowInv
<1> QED
  BY <1>1, RecordingsAlwaysSound, PTL

\* The files are what the rows say: a recording that can be played has its object, and
\* a purge leaves no file of the call but those whose clean-up was cut short, unless two
\* finishers overlapped.
THEOREM FilesFollowRows == Spec => []FilesMatchRows
<1>1. RecordingsInv => PlayableHasObject
  BY DEF RecordingsInv, ArchiveInv, RowInv, RecordingInv, PlayableHasObject, Playable
<1>2. RecordingsInv => PurgedLeavesNothing
  BY DEF RecordingsInv, ArchiveInv, FilesInv, PurgedLeavesNothing
<1>3. RecordingsInv => FilesMatchRows
  BY <1>1, <1>2 DEF FilesMatchRows
<1> QED
  BY <1>3, RecordingsAlwaysSound, PTL

---------------------------------------------------------------------------
\* The refinement of the promise of retention.

Recorded == callStatus # "gone" /\ recKey /\ "object" \in files

\* What a step may do to the promise, in the words of the abstract steps.
Promise ==
  \/ UNCHANGED <<Phase, Recorded, overlapped>>
  \/ Phase = "kept" /\ ~Recorded /\ Recorded' /\ UNCHANGED <<Phase, overlapped>>
  \/ /\ <<Phase, Phase'>> \in {<<"kept", "trashed">>, <<"trashed", "kept">>, <<"trashed", "due">>}
     /\ UNCHANGED <<Recorded, overlapped>>
  \/ Phase = "due" /\ Phase' \in {"due", "gone"} /\ ~Recorded' /\ UNCHANGED overlapped
  \/ overlapped' /\ UNCHANGED <<Phase, Recorded>>
  \/ overlapped /\ Recorded' = ~Recorded /\ UNCHANGED <<Phase, overlapped>>

LEMMA PromiseIsKept ==
  ASSUME Promise, ArchiveTypeOK, ArchiveTypeOK'
  PROVE  [Retention!Next]_(Retention!retentionVars)
<1> QED
  BY DEF Promise, Recorded, ArchiveTypeOK, Retention!Next, Retention!retentionVars,
         Retention!Record, Retention!Trash, Retention!Restore, Retention!Expire,
         Retention!Erase, Retention!Purge, Retention!Overlap, Retention!Lose

LEMMA SessionKeepsPromise ==
  ASSUME ArchiveInv, NEW intact, start \/ capture \/ finalize(intact) \/ end_call
  PROVE  Promise
<1> QED
  BY CallArchiveAssumption
     DEF ArchiveInv, ArchiveTypeOK, RowInv, RecordingInv, DeletionWins, Works, Busy, Finishing,
         Finishers, Promise, Phase, Recorded, start, capture, finalize, end_call, mark_failed,
         set_recording_state, set_state_refused, Go, Fault, Sound, rowVars, recVars, history, budget

LEMMA FinisherKeepsPromise ==
  ASSUME ArchiveInv, NEW f \in Finishers, finalize_recording(f)
  PROVE  Promise
<1> USE DEF ArchiveInv, ArchiveTypeOK, RowInv, RecordingInv, DeletionWins, Works, Busy, Finishing,
            Finishers, Promise, Phase, Recorded, rowVars, recVars, history
<1>1. CASE begin(f) \/ fail(f)
  BY <1>1 DEF begin, fail, mark_failed, set_recording_state, set_state_refused
<1>2. CASE encode(f) \/ unlink(f)
  BY <1>2 DEF encode, unlink
<1>3. CASE upload(f)
  BY <1>3 DEF upload
<1>4. CASE commit(f)
  BY <1>4 DEF commit, set_recording_state, set_state_refused, Refused
<1>5. CASE undo(f)
  BY <1>5 DEF undo
<1> QED
  BY ONLY <1>1, <1>2, <1>3, <1>4, <1>5, finalize_recording(f) DEF finalize_recording

LEMMA OthersKeepPromise ==
  ASSUME ArchiveInv,
         \/ TimePasses \/ move_spool_dir \/ soft_delete_call \/ restore_call
         \/ \E l \in Loops : Maintenance(l)
         \/ \E tasks \in Deaths : crash(tasks)
  PROVE  Promise
<1> USE DEF ArchiveInv, ArchiveTypeOK, RowInv, PurgeInv, DeletionWins, Busy, Promise, Phase,
            Recorded, rowVars, recVars, history, budget
<1>1. CASE TimePasses \/ move_spool_dir
  BY <1>1 DEF TimePasses, lease_lapses, heartbeat_lapses, expire, move_spool_dir, Fault, Sound
<1>2. CASE soft_delete_call \/ restore_call
  BY <1>2 DEF soft_delete_call, restore_call
<1>3. ASSUME NEW l \in Loops, Maintenance(l) PROVE Promise
  <2>1. CASE abandon_stale_calls(l) \/ recover(l)
    BY <2>1 DEF abandon_stale_calls, recover
  <2>2. CASE reject(l)
    BY <2>2 DEF reject, mark_failed, set_recording_state, set_state_refused
  <2>3. CASE claim_purge(l)
    BY <2>3 DEF claim_purge
  <2>4. CASE erase(l) \/ purge_row(l) \/ release(l)
    <3>1. Phase = "due"
      <4>1. at[l] \in Purging
        BY <2>4 DEF erase, purge_row, release, Purging
      <4>2. due /\ callStatus = "terminal"
        BY <4>1
      <4> QED
        BY ONLY <4>2, Zenon DEF Phase
    <3>2. CASE release(l)
      BY <3>2 DEF release
    <3>3. CASE erase(l)
      <4>1. /\ callStatus' = callStatus /\ recKey' = recKey /\ overlapped' = overlapped
            /\ files' \subseteq files
        BY <3>3 DEF erase
      <4>2. Phase' = Phase
        BY <3>3, <4>1 DEF erase
      <4>3. Recorded' => Recorded
        BY <4>1
      <4>4. ~Recorded' \/ (Recorded /\ Recorded' /\ UNCHANGED Recorded)
        BY <4>3
      <4> HIDE DEF Phase, Recorded
      <4> QED
        BY <3>1, <4>1, <4>2, <4>4
    <3>4. CASE purge_row(l)
      <4>1. \/ callStatus' = "gone"
            \/ UNCHANGED <<callStatus, recKey>>
        BY <3>4 DEF purge_row
      <4>2. UNCHANGED <<deleted, due, files, overlapped>>
        BY <3>4 DEF purge_row
      <4>3. CASE callStatus' = "gone"
        BY <3>1, <4>2, <4>3
      <4>4. CASE UNCHANGED <<callStatus, recKey>>
        BY <4>2, <4>4
      <4> QED
        BY ONLY <4>1, <4>3, <4>4
    <3> QED
      BY <2>4, <3>2, <3>3, <3>4
  <2> QED
    BY ONLY <1>3, <2>1, <2>2, <2>3, <2>4 DEF Maintenance, purge_expired_calls
<1>4. ASSUME NEW tasks \in Deaths, crash(tasks) PROVE Promise
  BY <1>4 DEF crash
<1> QED
  BY <1>1, <1>2, <1>3, <1>4

LEMMA NextKeepsPromise == RecordingsInv /\ [Next]_vars => Promise
<1> SUFFICES ASSUME RecordingsInv, [Next]_vars PROVE Promise
  OBVIOUS
<1>1. ArchiveInv
  BY DEF RecordingsInv
<1>2. UNCHANGED archiveVars => Promise
  BY DEF archiveVars, rowVars, recVars, history, Promise, Phase, Recorded
<1>3. CASE SpoolStep
  BY <1>1, <1>2, <1>3, SessionKeepsPromise DEF SpoolStep
<1>4. CASE HandOver
  BY <1>1, <1>4, SessionKeepsPromise DEF HandOver
<1>5. CASE Crash
  BY <1>1, <1>5, OthersKeepPromise DEF Crash
<1>6. CASE ArchiveStep
  BY <1>1, <1>6, SessionKeepsPromise, FinisherKeepsPromise, OthersKeepPromise DEF ArchiveStep
<1>7. CASE UNCHANGED vars
  BY <1>2, <1>7 DEF vars
<1> QED
  BY <1>3, <1>4, <1>5, <1>6, <1>7 DEF Next

\* Rows, files and tasks implement the promise of deletion: a call can be taken
\* back with its recording until it is due, and is erased only then.
THEOREM ArchiveImplementsRetention == Spec => KeepsRetention
<1>1. Init => Retention!Init
  BY DEF Init, ArchiveInit, Retention!Init, Phase
<1>2. RecordingsInv /\ RecordingsInv' /\ [Next]_vars => [Retention!Next]_(Retention!retentionVars)
  BY NextKeepsPromise, PromiseIsKept DEF RecordingsInv, ArchiveInv
<1> QED
  BY <1>1, <1>2, RecordingsAlwaysSound, PTL DEF Spec, KeepsRetention, Retention!Spec
====
