---- MODULE RecordsProofs ----
(***************************************************************************)
(* For any number of turns, saves and repetitions, what is recorded of the *)
(* turns of a call adds up; and for any tool calls and faults of their     *)
(* saves, so does what is recorded of those.                               *)
(***************************************************************************)
EXTENDS TurnGateProofs, TurnRecords, ToolRecords, FiniteSetTheorems

\* The records follow the turns of TurnGate: every step is a step of the gate or leaves
\* it alone.
LEMMA RecordsAreTurns ==
  ASSUME [RecordsNext]_<<vars, recordVars>>
  PROVE  [Next]_vars
<1>1. ASSUME NEW s \in Sessions, ~closed[s], RecordedFrame(s), UNCHANGED closed,
             UNCHANGED workVars
      PROVE  [Next]_vars
  <2>1. Frame(s) \/ UNCHANGED vars
    BY <1>1 DEF RecordedFrame, user_started, user_stopped, context, tts_started, first_audio,
                tts_stopped, interrupted, other_frame, Frame
  <2> QED
    BY <1>1, <2>1 DEF Next, SessionStep
<1>2. ASSUME NEW s \in Sessions, ~closed[s], Teardown(s), UNCHANGED workVars
      PROVE  [Next]_vars
  BY <1>2 DEF Next, SessionStep
<1>3. ASSUME recordRemoteAudioLevel \/ record_voice_latency \/ save_call_turn \/ finalize_call
      PROVE  UNCHANGED vars
  BY <1>3 DEF recordRemoteAudioLevel, record_voice_latency, save_call_turn, finalize_call
<1> QED
  BY <1>1, <1>2, <1>3 DEF RecordsNext

---------------------------------------------------------------------------
\* The turns of a call.

Interrupted == {t \in Turns : rows[t].interrupted}
Timed == {t \in Turns : rows[t].timed}

\* The count is that of the rows, until a row loses its interruption.
CountInv == rewritten = {} => interruptions = Cardinality(Interrupted)

\* What is summarised is timed, so that a call without timed rows has an empty summary;
\* and the summary is of the rows when the call is terminal.
SummaryInv ==
  /\ summary.turns \subseteq Timed /\ Sampled(rows) \subseteq Timed
  /\ ~open => summary.turns = IF Sampled(rows) # {} THEN Sampled(rows) ELSE Timed

RecordsInv == RecordsTypeOK /\ CountInv /\ SummaryInv

\* Without a save there is nothing to add up.
LEMMA InitRecordsInv == RecordsInit => RecordsInv
<1> SUFFICES ASSUME RecordsInit PROVE RecordsInv
  OBVIOUS
<1>1. RecordsTypeOK
  <2>1. summary \in Summaries
    BY DEF RecordsInit, Summaries
  <2>2. lane \in Seq(Payloads)
    BY DEF RecordsInit
  <2>3. timing \in Timings
    BY DEF RecordsInit, NoTiming, Timings, Modes
  <2>4. pending \in Pendings
    BY TurnGateAssumption DEF RecordsInit, NoPending, Pendings, Modes, Turns
  <2>5. rows \in [Turns -> SavedRows]
    BY DEF RecordsInit, NoRow, SavedRows
  <2>6. posts \subseteq [turn : Turns, sample : BOOLEAN] /\ rewritten \subseteq Turns
    BY DEF RecordsInit
  <2>7. /\ browser \in BOOLEAN /\ emitted \in BOOLEAN /\ playing \in BOOLEAN
        /\ isVoiceBusy \in BOOLEAN /\ open \in BOOLEAN
    BY DEF RecordsInit
  <2>8. inputMode \in Modes
    BY DEF RecordsInit, Modes
  <2>9. interruptions \in Nat /\ repeats \in 0..MaxRepeats
    <3>1. interruptions = 0 /\ repeats = 0
      BY DEF RecordsInit
    <3> QED
      BY <3>1, RecordsAssumption
  <2> QED
    BY <2>1, <2>2, <2>3, <2>4, <2>5, <2>6, <2>7, <2>8, <2>9 DEF RecordsTypeOK
<1>2. Interrupted = {} /\ Timed = {} /\ Sampled(rows) = {}
  BY DEF RecordsInit, NoRow, Interrupted, Timed, Sampled
<1>3. CountInv
  BY <1>2, FS_EmptySet DEF RecordsInit, CountInv
<1>4. SummaryInv
  BY <1>2 DEF RecordsInit, SummaryInv
<1> QED
  BY <1>1, <1>3, <1>4 DEF RecordsInv

\* The variables of RecordsTypeOK that belong to the page.
PageTypes ==
  /\ timing \in Timings
  /\ pending \in Pendings /\ isVoiceBusy \in BOOLEAN
  /\ posts \subseteq [turn : Turns, sample : BOOLEAN]

\* The page commits a moment of its own or the announcement of a turn.
LEMMA CommitTyped ==
  ASSUME NEW p \in Pendings,
         NEW t \in Timings,
         PageTypes, commitClientLatency(p, t), UNCHANGED isVoiceBusy
  PROVE  PageTypes'
<1>1. NoPending \in Pendings
  BY TurnGateAssumption DEF NoPending, Pendings, Turns, Modes
<1>2. [turn |-> p.turn, sample |-> p.mode = "voice" /\ t.mode # "text" /\ t.stopped]
        \in [turn : Turns, sample : BOOLEAN]
  BY DEF Pendings, Timings
<1> QED
  BY <1>1, <1>2 DEF commitClientLatency, PageTypes

\* What the page is shown of the server.
LEMMA ShownTyped ==
  ASSUME PageTypes, inputMode \in Modes, inputMode' \in Modes, NEW turn \in Turns,
         NEW typed \in BOOLEAN, NEW announced \in BOOLEAN,
         \/ UNCHANGED pageVars \/ page_user_started \/ page_user_stopped \/ page_tts_started
         \/ page_tts_stopped \/ page_context(typed, turn, announced) \/ turn_metrics(turn)
  PROVE  PageTypes'
<1>1. NoPending \in Pendings
  BY TurnGateAssumption DEF NoPending, Pendings, Turns, Modes
<1>2. CASE UNCHANGED pageVars \/ page_user_stopped \/ page_tts_started \/ page_tts_stopped
  BY <1>2 DEF Timings, pageVars, page_user_stopped, page_tts_started, page_tts_stopped, PageTypes
<1>3. CASE page_user_started
  BY <1>1, <1>3 DEF page_user_started, NoTiming, Modes, Timings, PageTypes
<1>4. CASE page_context(typed, turn, announced)
  BY <1>1, <1>4 DEF page_context, NoTiming, Modes, Timings, Pendings, PageTypes
<1>5. CASE turn_metrics(turn)
  <2>1. [turn |-> turn, mode |-> inputMode, complete |-> TRUE]
          \in Pendings
    BY DEF Pendings
  <2>2. /\ timing \in Timings
        /\ commitClientLatency([turn |-> turn, mode |-> inputMode, complete |-> TRUE], timing)
        /\ UNCHANGED isVoiceBusy
    BY <1>5 DEF turn_metrics, PageTypes
  <2> QED
    BY <2>1, <2>2, CommitTyped
<1> QED
  BY <1>2, <1>3, <1>4, <1>5

\* A boundary saves something of a turn.
LEMMA EnqueueTyped ==
  ASSUME RecordsTypeOK, NEW turn \in Turns, NEW kind \in {"audio", "interrupted", "client"},
         NEW sample \in BOOLEAN, enqueue(turn, kind, sample)
  PROVE  lane' \in Seq(Payloads)
<1>1. [turn |-> turn, kind |-> kind, sample |-> sample]
        \in Payloads
  BY DEF Payloads
<1> QED
  BY <1>1 DEF enqueue, RecordsTypeOK

\* A step that saves no turn leaves what adds up alone.
LEMMA UnsavedKeepsSums ==
  ASSUME CountInv, SummaryInv, Unsaved
  PROVE  CountInv' /\ SummaryInv'
BY DEF Unsaved, CountInv, SummaryInv, Interrupted, Timed, Sampled

\* A frame of the server, with what it saves and what the page is shown.
LEMMA FrameKeepsRecords ==
  ASSUME RecordsInv, TypeOK, TypeOK', NEW s \in Sessions, RecordedFrame(s)
  PROVE  RecordsInv'
<1> USE DEF RecordsInv
<1>1. PageTypes /\ turnId[s] \in Turns /\ turnId'[s] \in Turns /\ inputMode \in Modes
  BY DEF RecordsTypeOK, PageTypes, TypeOK, Turns
<1>2. CASE user_started(s)
  <2>1. inputMode' \in Modes /\ (UNCHANGED pageVars \/ page_user_started)
    BY <1>2 DEF user_started, Shown, Modes
  <2>2. PageTypes'
    BY <1>1, <2>1, ShownTyped
  <2> QED
    BY <1>2, <2>1, <2>2, UnsavedKeepsSums
    DEF user_started, callVars, Unsaved, PageTypes, RecordsTypeOK
<1>3. CASE user_stopped(s)
  <2>1. inputMode' \in Modes /\ (UNCHANGED pageVars \/ page_user_stopped)
    BY <1>1, <1>3 DEF user_stopped, Shown, Modes
  <2>2. PageTypes'
    BY <1>1, <2>1, ShownTyped
  <2> QED
    BY <1>3, <2>1, <2>2, UnsavedKeepsSums
    DEF user_stopped, callVars, Unsaved, PageTypes, RecordsTypeOK
<1>4. CASE context(s)
  <2>1. inputMode' \in Modes
    BY <1>1, <1>4 DEF context, Modes
  <2>2. (Opened(s) \/ ~emitted) \in BOOLEAN
    OBVIOUS
  <2>3. PICK typed \in BOOLEAN :
          UNCHANGED pageVars \/ page_context(typed, turnId'[s], Opened(s) \/ ~emitted)
    BY <1>4 DEF context, Shown
  <2>4. PageTypes'
    BY <1>1, <2>1, <2>2, <2>3, ShownTyped
  <2> QED
    BY <1>4, <2>1, <2>4, UnsavedKeepsSums
    DEF context, callVars, Unsaved, PageTypes, RecordsTypeOK
<1>5. CASE tts_started(s) \/ tts_stopped(s)
  <2>1. inputMode' = inputMode /\ (UNCHANGED pageVars \/ page_tts_started \/ page_tts_stopped)
    BY <1>5 DEF tts_started, tts_stopped, Shown, serverVars
  <2>2. PageTypes'
    BY <1>1, <2>1, ShownTyped
  <2> QED
    BY <1>5, <2>2, UnsavedKeepsSums
    DEF tts_started, tts_stopped, serverVars, callVars, Unsaved, PageTypes, RecordsTypeOK
<1>6. CASE first_audio(s)
  <2>1. inputMode' = inputMode /\ (UNCHANGED pageVars \/ turn_metrics(turnId[s]))
    BY <1>6 DEF first_audio, Shown
  <2>2. PageTypes'
    BY <1>1, <2>1, ShownTyped
  <2>3. enqueue(turnId[s], "audio", FALSE)
    BY <1>6 DEF first_audio
  <2>4. lane' \in Seq(Payloads)
    BY <1>1, <2>3, EnqueueTyped
  <2> QED
    BY <1>6, <2>2, <2>4, UnsavedKeepsSums
    DEF first_audio, Unsaved, PageTypes, RecordsTypeOK
<1>7. CASE interrupted(s)
  <2>1. lane' \in Seq(Payloads)
    <3>1. enqueue(turnId[s], "interrupted", FALSE) \/ UNCHANGED lane
      BY <1>7 DEF interrupted
    <3> QED
      BY <1>1, <3>1, EnqueueTyped DEF RecordsTypeOK
  <2> QED
    BY <1>7, <2>1, UnsavedKeepsSums DEF interrupted, pageVars, Unsaved, RecordsTypeOK
<1>8. CASE other_frame(s)
  BY <1>8, UnsavedKeepsSums
  DEF other_frame, recordVars, serverVars, pageVars, callVars, Unsaved, RecordsTypeOK
<1> QED
  BY <1>2, <1>3, <1>4, <1>5, <1>6, <1>7, <1>8 DEF RecordedFrame

\* The page hears a reply, or one of its posts arrives.
LEMMA PageKeepsRecords ==
  ASSUME RecordsInv, recordRemoteAudioLevel \/ record_voice_latency
  PROVE  RecordsInv'
<1> USE DEF RecordsInv
<1>1. CASE recordRemoteAudioLevel
  <2>1. [timing EXCEPT !.awaiting = FALSE, !.heard = TRUE]
          \in Timings
    BY DEF RecordsTypeOK, Timings
  <2>2. PageTypes'
    BY <1>1, <2>1, CommitTyped DEF recordRemoteAudioLevel, RecordsTypeOK, PageTypes
  <2> QED
    BY <1>1, <2>2, UnsavedKeepsSums
    DEF recordRemoteAudioLevel, serverVars, callVars, Unsaved, PageTypes, RecordsTypeOK
<1>2. CASE record_voice_latency
  <2>1. PICK p \in posts : /\ posts' = posts \ {p}
                           /\ enqueue(p.turn, "client", p.sample) \/ UNCHANGED lane
    BY <1>2 DEF record_voice_latency
  <2>2. p.turn \in Turns /\ p.sample \in BOOLEAN
    BY DEF RecordsTypeOK
  <2>3. lane' \in Seq(Payloads)
    BY <2>1, <2>2, EnqueueTyped DEF RecordsTypeOK
  <2> QED
    BY <1>2, <2>1, <2>3, UnsavedKeepsSums
    DEF record_voice_latency, serverVars, Unsaved, RecordsTypeOK
<1> QED
  BY <1>1, <1>2

\* A save of the lane: the count follows the row, and a client's sample the summary.
LEMMA SaveKeepsRecords ==
  ASSUME RecordsInv, save_call_turn
  PROVE  RecordsInv'
<1> USE DEF RecordsInv
<1> DEFINE p == Head(lane)
           row == rows[p.turn]
<1>1. p \in Payloads /\ lane' \in Seq(Payloads) /\ repeats' \in 0..MaxRepeats
  <2>1. lane \in Seq(Payloads) /\ lane # <<>>
    BY DEF save_call_turn, RecordsTypeOK
  <2>2. p \in Payloads /\ Tail(lane) \in Seq(Payloads)
    BY <2>1
  <2> QED
    BY <2>1, <2>2, RecordsAssumption DEF save_call_turn, RecordsTypeOK
<1>2. /\ p.turn \in Turns /\ p.kind \in {"audio", "interrupted", "client"} /\ p.sample \in BOOLEAN
      /\ row \in SavedRows
  BY <1>1 DEF RecordsTypeOK, Payloads
<1>3. CASE ~open
  <2>1. UNCHANGED <<rows, interruptions, summary, rewritten, open>>
    BY <1>3 DEF save_call_turn, writable
  <2> QED
    BY <1>1, <2>1, UnsavedKeepsSums
    DEF save_call_turn, serverVars, pageVars, Unsaved, RecordsTypeOK, CountInv, SummaryInv,
        Interrupted, Timed, Sampled
<1>4. CASE open
  <2>1. /\ rows' = [rows EXCEPT ![p.turn] = Merged(row, p)]
        /\ interruptions' = interruptions + Added(row, p)
        /\ summary' = IF p.kind = "client" /\ p.sample
                      THEN summarize_direct_perceived_latency(rows') ELSE summary
        /\ rewritten' = IF row.interrupted /\ p.kind # "interrupted"
                        THEN rewritten \cup {p.turn} ELSE rewritten
        /\ UNCHANGED <<serverVars, pageVars, open>>
    BY <1>4 DEF save_call_turn, writable
  <2> HIDE DEF p
  <2>2. Merged(row, p)
          \in SavedRows
    BY <1>2 DEF Merged, SavedRows
  <2>3. rows' \in [Turns -> SavedRows]
    BY <1>2, <2>1, <2>2 DEF RecordsTypeOK
  <2>4. /\ rows'[p.turn] = Merged(row, p)
        /\ \A t \in Turns \ {p.turn} : rows'[t] = rows[t]
        /\ rows'[p.turn].interrupted = (p.kind = "interrupted")
    BY <1>2, <2>1 DEF RecordsTypeOK, Merged
  <2>5. Interrupted \subseteq Turns /\ IsFiniteSet(Interrupted) /\ Cardinality(Interrupted) \in Nat
    <3>1. Interrupted \subseteq Turns /\ IsFiniteSet(Turns)
      BY TurnGateAssumption, FS_Interval DEF Interrupted, Turns
    <3> QED
      BY <3>1, FS_Subset, FS_CardinalityType
  <2>6. CountInv'
    <3> SUFFICES ASSUME rewritten' = {} PROVE interruptions' = Cardinality(Interrupted')
      BY DEF CountInv
    <3>1. rewritten = {} /\ interruptions = Cardinality(Interrupted)
          /\ (row.interrupted => p.kind = "interrupted")
      BY <2>1 DEF CountInv
    <3>2. CASE p.kind = "interrupted"
      <4>1. Interrupted' = Interrupted \cup {p.turn}
        BY <1>2, <2>4, <3>2 DEF Interrupted
      <4>2. CASE row.interrupted
        <5>1. Interrupted' = Interrupted /\ interruptions' = interruptions
          BY <1>2, <2>1, <3>2, <4>1, <4>2 DEF Interrupted, Added, RecordsTypeOK
        <5> QED
          BY <3>1, <5>1
      <4>3. CASE ~row.interrupted
        <5>1. p.turn \notin Interrupted /\ interruptions' = interruptions + 1
          BY <2>1, <3>2, <4>3 DEF Interrupted, Added
        <5>2. Cardinality(Interrupted') = Cardinality(Interrupted) + 1
          BY <2>5, <4>1, <5>1, FS_AddElement
        <5> QED
          BY <3>1, <5>1, <5>2
      <4> QED
        BY <4>2, <4>3
    <3>3. CASE p.kind # "interrupted"
      <4>1. Interrupted' = Interrupted
        BY <1>2, <2>4, <3>1, <3>3 DEF Interrupted
      <4>2. interruptions' = interruptions
        BY <2>1, <3>3 DEF Added, RecordsTypeOK
      <4> QED
        BY <3>1, <4>1, <4>2
    <3> QED
      BY <3>2, <3>3
  <2>7. SummaryInv'
    <3>1. Timed \subseteq Timed' /\ Sampled(rows') \subseteq Timed'
      <4>1. row.timed \/ p.kind # "interrupted" => rows'[p.turn].timed
        <5>1. Merged(row, p).timed = (row.timed \/ p.kind # "interrupted")
          BY DEF Merged
        <5> QED
          BY <2>4, <5>1
      <4>2. Timed \subseteq Timed'
        BY <2>4, <4>1 DEF Timed
      <4>3. ASSUME NEW t \in Sampled(rows') PROVE t \in Timed'
        BY <2>4, <4>1, <4>3 DEF Timed, Sampled, SummaryInv
      <4> QED
        BY <4>2, <4>3
    <3>2. summary'.turns \subseteq Timed'
      <4>1. summary' = summary \/ summary'.turns \subseteq Sampled(rows')
        BY <2>1 DEF summarize_direct_perceived_latency
      <4> QED
        BY <3>1, <4>1 DEF SummaryInv
    <3> QED
      BY <1>4, <2>1, <3>1, <3>2 DEF SummaryInv
  <2>8. RecordsTypeOK'
    <3>1. interruptions' \in Nat /\ rewritten' \subseteq Turns
      BY <1>2, <2>1 DEF Added, RecordsTypeOK
    <3>2. summary' \in Summaries
      BY <2>1 DEF summarize_direct_perceived_latency, Sampled, Summaries, RecordsTypeOK
    <3> QED
      BY <1>1, <2>1, <2>3, <3>1, <3>2 DEF serverVars, pageVars, RecordsTypeOK
  <2> QED
    BY <2>6, <2>7, <2>8
<1> QED
  BY <1>3, <1>4 DEF RecordsTypeOK

\* The call becomes terminal with the summary of its rows.
LEMMA FinalizeKeepsRecords ==
  ASSUME RecordsInv, finalize_call
  PROVE  RecordsInv'
<1> USE DEF RecordsInv
<1>1. /\ open' = FALSE /\ summary' = FinalSummary
      /\ UNCHANGED <<serverVars, pageVars, lane, rows, interruptions, repeats, rewritten>>
  BY DEF finalize_call
<1>2. FinalSummary \in Summaries
  BY DEF FinalSummary, summarize_direct_perceived_latency, Sampled, Summaries, RecordsTypeOK
<1>3. FinalSummary.turns = IF Sampled(rows) # {} THEN Sampled(rows) ELSE Timed
  BY DEF FinalSummary, summarize_direct_perceived_latency, SummaryInv, Timed
<1>4. RecordsTypeOK'
  BY <1>1, <1>2 DEF serverVars, pageVars, RecordsTypeOK
<1>5. CountInv' /\ SummaryInv'
  BY <1>1, <1>3 DEF CountInv, SummaryInv, Interrupted, Timed, Sampled
<1> QED
  BY <1>4, <1>5

LEMMA NextKeepsRecordsInv ==
  ASSUME RecordsInv, TypeOK, TypeOK', [RecordsNext]_<<vars, recordVars>>
  PROVE  RecordsInv'
<1>1. CASE UNCHANGED recordVars
  BY <1>1, UnsavedKeepsSums
  DEF RecordsInv, recordVars, serverVars, pageVars, callVars, Unsaved, RecordsTypeOK
<1>2. CASE \E s \in Sessions : RecordedFrame(s)
  BY <1>2, FrameKeepsRecords
<1>3. CASE recordRemoteAudioLevel \/ record_voice_latency
  BY <1>3, PageKeepsRecords
<1>4. CASE save_call_turn
  BY <1>4, SaveKeepsRecords
<1>5. CASE finalize_call
  BY <1>5, FinalizeKeepsRecords
<1> QED
  BY <1>1, <1>2, <1>3, <1>4, <1>5 DEF RecordsNext

\* The records and the gate beside them stay sound, however the posts of the page, the
\* saves of the lane and the end of the call overlap.
THEOREM RecordsAlwaysSound == RecordsSpec => [](GateInv /\ RecordsInv)
<1>1. Init /\ RecordsInit => GateInv /\ RecordsInv
  BY InitGateInv, InitRecordsInv
<1>2. GateInv /\ RecordsInv /\ [RecordsNext]_<<vars, recordVars>> => (GateInv /\ RecordsInv)'
  BY RecordsAreTurns, NextKeepsGateInv, NextKeepsRecordsInv DEF GateInv
<1> QED
  BY <1>1, <1>2, PTL DEF RecordsSpec

\* The call's count of interruptions and its latency summary are those of its rows.
THEOREM TurnsAlwaysAddUp == RecordsSpec => []TurnsAddUp
<1>1. RecordsInv => TurnsAddUp
  BY DEF RecordsInv, CountInv, SummaryInv, Interrupted, Timed, TurnsAddUp
<1> QED
  BY <1>1, RecordsAlwaysSound, PTL

---------------------------------------------------------------------------
\* The tool calls of a call.

\* What is or was owed of the tool calls, wherever it is now.
Rowed == {timeline[i] : i \in DOMAIN timeline}
OfTool(S) == {s \in S : s.of \in ToolCalls}
Filed == OfTool(saves \cup fallbacks \cup unsaved \cup Rowed)

\* What is filed of a tool call is what it owes, and of one turn; and what it owes is filed
\* until the watchdog has closed the call.
FiledInv ==
  /\ \A s \in Filed : s.kind \in Due(called[s.of])
  /\ \A s, t \in Filed : s.of = t.of => s.turn = t.turn
  /\ ended # "watchdog" =>
       \A c \in ToolCalls : \A kind \in Due(called[c]) : \E s \in Filed : s.of = c /\ s.kind = kind

\* What the end of the session has waited for is there.
EndInv ==
  /\ teardown # "live" => closed[Caller]
  /\ teardown = "draining" => OfTool(fallbacks) \subseteq gathered
  /\ teardown \in {"drained", "over"} => OfTool(fallbacks) = {}
  /\ teardown = "over" => saves = {}
  /\ ended = "session" => teardown = "over"

\* A row is appended once and counted with it.
RowsInv ==
  /\ \A i, j \in DOMAIN timeline : timeline[i] = timeline[j] => i = j
  /\ CountsAddUp

ToolsInv == ToolTypeOK /\ FiledInv /\ EndInv /\ RowsInv

\* Nothing is owed.
LEMMA InitToolsInv == ToolInit => ToolsInv
<1> SUFFICES ASSUME ToolInit PROVE ToolsInv
  OBVIOUS
<1>1. ToolTypeOK
  <2>1. timeline \in Seq(Saves)
    BY DEF ToolInit
  <2>2. counts \in [{"operation", "error", "warning"} -> Nat]
    BY DEF ToolInit
  <2>3. saveFaults \in 0..MaxSaveFaults
    BY ToolAssumption DEF ToolInit
  <2> QED
    BY <2>1, <2>2, <2>3 DEF ToolInit, ToolTypeOK
<1>2. Filed = {} /\ \A c \in ToolCalls : Due(called[c]) = {}
  BY DEF ToolInit, Filed, OfTool, Rowed, Due
<1>3. FiledInv
  BY <1>2 DEF FiledInv
<1>4. EndInv
  BY DEF ToolInit, EndInv
<1>5. RowsInv
  <2>1. ASSUME NEW kind \in DOMAIN counts PROVE counts[kind] = Cardinality(Rows(kind))
    <3>1. Rows(kind) = {} /\ counts[kind] = 0
      BY DEF ToolInit, Rows
    <3> QED
      BY <3>1, FS_EmptySet
  <2> QED
    BY <2>1 DEF ToolInit, RowsInv, CountsAddUp
<1> QED
  BY <1>1, <1>3, <1>4, <1>5 DEF ToolsInv

\* What is enqueued is somewhere, journaled or not.
LEMMA EnqueueFiles ==
  ASSUME NEW others, NEW new, enqueueSaves(others, new)
  PROVE  /\ saves' \cup fallbacks' \cup unsaved' = others \cup new \cup fallbacks \cup unsaved
         /\ saves' \subseteq others \cup new
         /\ fallbacks' \subseteq fallbacks \cup new
         /\ unsaved' \subseteq unsaved \cup new
BY DEF enqueueSaves, notJournaled

LEMMA EnqueueTypes ==
  ASSUME ToolTypeOK, NEW others \in SUBSET Saves, NEW new \in SUBSET Saves,
         IsFiniteSet(new), enqueueSaves(others, new)
  PROVE  /\ saves' \subseteq Saves /\ fallbacks' \subseteq Saves /\ unsaved' \subseteq Saves
         /\ saveFaults' \in 0..MaxSaveFaults
<1>1. PICK refused \in notJournaled(new) : saveFaults' = saveFaults + Cardinality(refused)
  BY DEF enqueueSaves
<1>2. refused \subseteq new /\ saveFaults + Cardinality(refused) =< MaxSaveFaults
  BY DEF notJournaled
<1>3. Cardinality(refused) \in Nat
  BY <1>2, FS_Subset, FS_CardinalityType
<1>4. saveFaults' \in 0..MaxSaveFaults
  BY <1>1, <1>2, <1>3, ToolAssumption DEF ToolTypeOK
<1> QED
  BY <1>4, EnqueueFiles DEF ToolTypeOK

\* A step that neither opens nor settles what a tool call owes.
LEMMA FiledKept ==
  ASSUME FiledInv, Filed' \subseteq Filed,
         \A c \in ToolCalls : Due(called'[c]) = Due(called[c]),
         ended' # "watchdog" => ended # "watchdog" /\ Filed \subseteq Filed'
  PROVE  FiledInv'
<1>1. \A s \in Filed : s.of \in ToolCalls
  BY DEF Filed, OfTool
<1>2. \A s \in Filed' : s.kind \in Due(called'[s.of])
  BY <1>1 DEF FiledInv
<1>3. \A s, t \in Filed' : s.of = t.of => s.turn = t.turn
  BY DEF FiledInv
<1>4. ended' # "watchdog" =>
        \A c \in ToolCalls : \A kind \in Due(called'[c]) :
          \E s \in Filed' : s.of = c /\ s.kind = kind
  BY DEF FiledInv
<1> QED
  BY <1>2, <1>3, <1>4 DEF FiledInv

\* A step that changes no row.
LEMMA RowsKept ==
  ASSUME RowsInv, UNCHANGED <<timeline, counts>>
  PROVE  RowsInv' /\ Rowed' = Rowed
BY DEF RowsInv, CountsAddUp, Rows, Rowed

\* A step of the pipeline, while the session lives, that owes nothing new of a tool call.
LEMMA PipelineKeepsRecords ==
  ASSUME ToolsInv, ~closed[Caller], UNCHANGED closed, recordUnchanged,
         Filed' = Filed, \A c \in ToolCalls : Due(called'[c]) = Due(called[c])
  PROVE  FiledInv' /\ EndInv' /\ RowsInv'
<1>1. FiledInv'
  BY FiledKept DEF ToolsInv, recordUnchanged
<1>2. EndInv'
  BY DEF ToolsInv, EndInv, recordUnchanged
<1>3. RowsInv'
  BY RowsKept DEF ToolsInv, recordUnchanged
<1> QED
  BY <1>1, <1>2, <1>3

\* An entry of the transcript or a report of another component is saved.
LEMMA OtherSaveKeepsRecords ==
  ASSUME ToolsInv, ~closed[Caller], UNCHANGED <<closed, called>>, recordUnchanged,
         NEW x \in Saves, x.of \notin ToolCalls, enqueueSaves(saves, {x})
  PROVE  /\ FiledInv' /\ EndInv' /\ RowsInv'
         /\ saves' \subseteq Saves /\ fallbacks' \subseteq Saves /\ unsaved' \subseteq Saves
         /\ saveFaults' \in 0..MaxSaveFaults
<1>1. Rowed' = Rowed
  BY DEF recordUnchanged, Rowed
<1>2. Filed' = Filed
  BY <1>1, EnqueueFiles DEF Filed, OfTool
<1>3. FiledInv' /\ EndInv' /\ RowsInv'
  BY <1>2, PipelineKeepsRecords
<1> QED
  BY <1>3, EnqueueTypes, FS_Singleton DEF ToolsInv, ToolTypeOK

\* A tool call is over: it owes its operation, and the failure if there was one, once.
LEMMA ToolOverKeepsRecords ==
  ASSUME ToolsInv, TypeOK, ~closed[Caller], UNCHANGED closed,
         NEW c \in ToolCalls, NEW status \in Closed,
         called[c] \in {"running", "interrupted"}, tool_over(c, status)
  PROVE  ToolsInv'
<1> DEFINE new == Outcome(c, status)
           turn == turnId[Caller]
<1>1. turn \in 0..MaxTurns
  BY ToolAssumption DEF TypeOK
<1>2. Due(status) \subseteq {"operation", "error", "warning"}
  BY DEF Due
<1>3. \A s \in new : /\ s \in Saves /\ s.of = c /\ s.turn = turn /\ s.kind \in Due(status)
  BY <1>1, <1>2 DEF Outcome, Save, Saves, Events
<1>4. \A kind \in Due(status) : \E s \in new : s.kind = kind
  <2>1. ASSUME NEW kind \in Due(status) PROVE Save(kind, c, turn) \in new
    BY DEF Outcome
  <2>2. \A kind : Save(kind, c, turn).kind = kind
    BY DEF Save
  <2> QED
    BY <2>1, <2>2
<1>5. IsFiniteSet(new)
  <2> DEFINE all == {Save("operation", c, turn), Save("error", c, turn), Save("warning", c, turn)}
  <2>1. new \subseteq all
    BY <1>2 DEF Outcome
  <2>2. IsFiniteSet({Save("operation", c, turn)})
    BY FS_Singleton
  <2>3. IsFiniteSet({Save("operation", c, turn)} \cup {Save("error", c, turn)})
    BY <2>2, FS_AddElement
  <2>4. IsFiniteSet(({Save("operation", c, turn)} \cup {Save("error", c, turn)})
                      \cup {Save("warning", c, turn)})
    BY <2>3, FS_AddElement
  <2>5. all = ({Save("operation", c, turn)} \cup {Save("error", c, turn)})
                \cup {Save("warning", c, turn)}
    OBVIOUS
  <2> QED
    BY <2>1, <2>4, <2>5, FS_Subset
<1> HIDE DEF new, turn
<1>6. /\ enqueueSaves(saves, new) /\ recordUnchanged /\ UNCHANGED said
      /\ called' = [called EXCEPT ![c] = status]
      /\ activeCalls' = activeCalls \ {c} /\ fillerTask' \in BOOLEAN
  BY DEF tool_over, new, ToolsInv, ToolTypeOK
<1>7. /\ saves' \subseteq Saves /\ fallbacks' \subseteq Saves /\ unsaved' \subseteq Saves
      /\ saveFaults' \in 0..MaxSaveFaults
  BY <1>3, <1>5, <1>6, EnqueueTypes DEF ToolsInv, ToolTypeOK
<1>8. ToolTypeOK'
  BY <1>6, <1>7 DEF ToolsInv, ToolTypeOK, recordUnchanged
<1>9. Filed' = Filed \cup new
  <2>1. Rowed' = Rowed
    BY <1>6 DEF recordUnchanged, Rowed
  <2>2. OfTool(new) = new
    BY <1>3 DEF OfTool
  <2> QED
    BY <1>6, <2>1, <2>2, EnqueueFiles DEF Filed, OfTool
<1>10. \A s \in Filed : s.of \in ToolCalls /\ s.of # c
  <2>1. Due(called[c]) = {}
    BY DEF Due
  <2> QED
    BY <2>1 DEF ToolsInv, FiledInv, Filed, OfTool
<1>11. called'[c] = status /\ \A d \in ToolCalls \ {c} : called'[d] = called[d]
  BY <1>6 DEF ToolsInv, ToolTypeOK
<1>12. FiledInv'
  <2>1. \A s \in Filed' : s.kind \in Due(called'[s.of])
    BY <1>3, <1>9, <1>10, <1>11 DEF ToolsInv, FiledInv
  <2>2. \A s, t \in Filed' : s.of = t.of => s.turn = t.turn
    BY <1>3, <1>9, <1>10 DEF ToolsInv, FiledInv
  <2>3. ASSUME ended' # "watchdog", NEW d \in ToolCalls, NEW kind \in Due(called'[d])
        PROVE  \E s \in Filed' : s.of = d /\ s.kind = kind
    <3>1. CASE d = c
      BY <1>3, <1>4, <1>9, <1>11, <2>3, <3>1
    <3>2. CASE d # c
      BY <1>6, <1>9, <1>11, <2>3, <3>2 DEF ToolsInv, FiledInv, recordUnchanged
    <3> QED
      BY <3>1, <3>2
  <2> QED
    BY <2>1, <2>2, <2>3 DEF FiledInv
<1>13. EndInv'
  BY <1>6 DEF ToolsInv, EndInv, recordUnchanged
<1>14. RowsInv'
  BY <1>6, RowsKept DEF ToolsInv, recordUnchanged
<1> QED
  BY <1>8, <1>12, <1>13, <1>14 DEF ToolsInv

\* A row is written at most once, by a call that is not terminal.
LEMMA WriteKeepsRows ==
  ASSUME ToolsInv, NEW s \in Saves, write(s)
  PROVE  /\ RowsInv' /\ timeline' \in Seq(Saves)
         /\ counts' \in [{"operation", "error", "warning"} -> Nat]
         /\ Rowed \subseteq Rowed' /\ Rowed' \subseteq Rowed \cup {s}
         /\ ended = "no" => s \in Rowed'
<1> USE DEF ToolsInv
<1>1. CASE UNCHANGED <<timeline, counts>>
  <2>1. RowsInv' /\ Rowed' = Rowed
    BY <1>1, RowsKept
  <2>2. ended = "no" => InTimeline(s) \/ timeline' # timeline
    <3>1. ASSUME ~InTimeline(s), ended = "no" PROVE timeline' # timeline
      <4>1. timeline' = Append(timeline, s)
        BY <3>1 DEF write
      <4> QED
        BY <4>1 DEF ToolTypeOK
    <3> QED
      BY <3>1
  <2> QED
    BY <1>1, <2>1, <2>2 DEF InTimeline, Rowed, ToolTypeOK
<1>2. CASE ~UNCHANGED <<timeline, counts>>
  <2>1. ~InTimeline(s) /\ timeline' = Append(timeline, s) /\ counts' = Counted(s.kind)
    BY <1>2 DEF write
  <2>2. timeline \in Seq(Saves)
    BY DEF ToolTypeOK
  <2> DEFINE n == Len(timeline) + 1
  <2>3. /\ timeline' \in Seq(Saves) /\ n \in Nat
        /\ DOMAIN timeline = 1..Len(timeline) /\ DOMAIN timeline' = DOMAIN timeline \cup {n}
        /\ n \notin DOMAIN timeline /\ timeline'[n] = s
        /\ \A i \in DOMAIN timeline : timeline'[i] = timeline[i]
    BY <2>1, <2>2
  <2> HIDE DEF n
  <2>4. counts' \in [{"operation", "error", "warning"} -> Nat]
    BY <2>1 DEF Counted, ToolTypeOK
  <2>5. \A i, j \in DOMAIN timeline' : timeline'[i] = timeline'[j] => i = j
    BY <2>1, <2>3 DEF RowsInv, InTimeline
  <2>6. CountsAddUp'
    <3> SUFFICES ASSUME NEW kind \in {"operation", "error", "warning"}
                 PROVE  counts'[kind] = Cardinality(Rows(kind)')
      BY <2>4 DEF CountsAddUp
    <3>1. counts[kind] = Cardinality(Rows(kind)) /\ counts[kind] \in Nat
      BY DEF RowsInv, CountsAddUp, ToolTypeOK
    <3>2. IsFiniteSet(Rows(kind)) /\ n \notin Rows(kind)
      <4>1. IsFiniteSet(1..Len(timeline)) /\ Rows(kind) \subseteq 1..Len(timeline)
        BY <2>2, <2>3, FS_Interval DEF Rows
      <4> QED
        BY <2>3, <4>1, FS_Subset
    <3>3. CASE s.kind = kind
      <4>1. Rows(kind)' = Rows(kind) \cup {n}
        BY <2>3, <3>3 DEF Rows
      <4>2. counts'[kind] = counts[kind] + 1
        BY <2>1, <3>3 DEF Counted, ToolTypeOK
      <4> QED
        BY <3>1, <3>2, <4>1, <4>2, FS_AddElement
    <3>4. CASE s.kind # kind
      <4>1. Rows(kind)' = Rows(kind)
        BY <2>3, <3>4 DEF Rows
      <4>2. counts'[kind] = counts[kind]
        BY <2>1, <3>4 DEF Counted, ToolTypeOK
      <4> QED
        BY <3>1, <4>1, <4>2
    <3> QED
      BY <3>3, <3>4
  <2>7. Rowed \subseteq Rowed' /\ Rowed' \subseteq Rowed \cup {s} /\ s \in Rowed'
    BY <2>3 DEF Rowed
  <2> QED
    BY <2>3, <2>4, <2>5, <2>6, <2>7 DEF RowsInv
<1> QED
  BY <1>1, <1>2

\* The lane answers a save: its row is there, or the call was terminal already, and then
\* because the watchdog made it so, since the session does only when nothing is saved.
LEMMA SaveRunsKeepsTools ==
  ASSUME ToolsInv, TypeOK, NEW s \in saves, save_runs(s)
  PROVE  ToolsInv'
<1> USE DEF ToolsInv
<1>1. /\ write(s) /\ s \in Saves
      /\ UNCHANGED <<closed, called, activeCalls, fillerTask, said, teardown, gathered, ended>>
  BY DEF save_runs, enqueue_enrichment, vars, ToolTypeOK
<1>2. /\ RowsInv' /\ timeline' \in Seq(Saves)
      /\ counts' \in [{"operation", "error", "warning"} -> Nat]
      /\ Rowed \subseteq Rowed' /\ Rowed' \subseteq Rowed \cup {s}
      /\ ended = "no" => s \in Rowed'
  BY <1>1, WriteKeepsRows
<1>3. teardown # "over" /\ ended # "session"
  BY DEF EndInv
<1>4. CASE UNCHANGED <<saves, fallbacks, unsaved>> /\ saveFaults < MaxSaveFaults
           /\ saveFaults' = saveFaults + 1
  <2>1. Filed' = Filed
    BY <1>2, <1>4 DEF Filed, OfTool
  <2>2. FiledInv'
    BY <1>1, <2>1, FiledKept
  <2>3. EndInv'
    BY <1>1, <1>4 DEF EndInv
  <2>4. ToolTypeOK'
    BY <1>1, <1>2, <1>4, ToolAssumption DEF ToolTypeOK
  <2> QED
    BY <1>2, <2>2, <2>3, <2>4
<1>5. CASE \E new \in SUBSET record_queue_rejection : enqueueSaves(saves \ {s}, new)
  <2>1. PICK new \in SUBSET record_queue_rejection : enqueueSaves(saves \ {s}, new)
    BY <1>5
  <2>2. \A x \in record_queue_rejection : x \in Saves /\ x.of \notin ToolCalls
    BY ToolAssumption DEF record_queue_rejection, Save, Saves, Events, Reporters, TypeOK
  <2>3. IsFiniteSet(new)
    <3>1. IsFiniteSet(record_queue_rejection)
      BY FS_Singleton DEF record_queue_rejection
    <3> QED
      BY <3>1, FS_Subset
  <2>4. /\ saves' \subseteq Saves /\ fallbacks' \subseteq Saves /\ unsaved' \subseteq Saves
        /\ saveFaults' \in 0..MaxSaveFaults
    BY <2>1, <2>2, <2>3, EnqueueTypes DEF ToolTypeOK
  <2>5. ToolTypeOK'
    BY <1>1, <1>2, <2>4 DEF ToolTypeOK
  <2>6. /\ saves' \cup fallbacks' \cup unsaved' = (saves \ {s}) \cup new \cup fallbacks \cup unsaved
        /\ saves' \subseteq (saves \ {s}) \cup new /\ fallbacks' \subseteq fallbacks \cup new
    BY <2>1, EnqueueFiles
  <2>7. Filed' \subseteq Filed /\ Filed \subseteq Filed' \cup {s}
    BY <1>2, <2>2, <2>6 DEF Filed, OfTool
  <2>8. ended = "no" => Filed \subseteq Filed'
    BY <1>2, <2>7 DEF Filed, OfTool
  <2>9. FiledInv'
    BY <1>1, <1>3, <2>7, <2>8, FiledKept DEF ToolTypeOK
  <2>10. OfTool(fallbacks') \subseteq OfTool(fallbacks)
    BY <2>2, <2>6 DEF OfTool
  <2>11. EndInv'
    BY <1>1, <1>3, <2>10 DEF EndInv, OfTool
  <2> QED
    BY <1>2, <2>5, <2>9, <2>11
<1> QED
  BY <1>4, <1>5 DEF save_runs

\* A fallback ends: a tool call's ends before the session makes the call terminal.
LEMMA FallbackRunsKeepsTools ==
  ASSUME ToolsInv, NEW s \in fallbacks, fallback_runs(s)
  PROVE  ToolsInv'
<1> USE DEF ToolsInv
<1>1. /\ fallbacks' = fallbacks \ {s} /\ s \in Saves
      /\ UNCHANGED <<closed, called, activeCalls, fillerTask, said, saves, teardown, gathered,
                     ended>>
  BY DEF fallback_runs, vars, ToolTypeOK
<1>2. EndInv'
  BY <1>1 DEF EndInv, OfTool
<1>3. s.of \in ToolCalls => ended # "session"
  BY DEF EndInv, OfTool
<1>4. CASE write(s) /\ UNCHANGED <<unsaved, saveFaults>>
  <2>1. /\ RowsInv' /\ timeline' \in Seq(Saves)
        /\ counts' \in [{"operation", "error", "warning"} -> Nat]
        /\ Rowed \subseteq Rowed' /\ Rowed' \subseteq Rowed \cup {s}
        /\ ended = "no" => s \in Rowed'
    BY <1>1, <1>4, WriteKeepsRows
  <2>2. Filed' \subseteq Filed /\ Filed \subseteq Filed' \cup OfTool({s})
    BY <1>1, <1>4, <2>1 DEF Filed, OfTool
  <2>3. ended = "no" \/ s.of \notin ToolCalls => Filed \subseteq Filed'
    BY <1>1, <1>4, <2>1, <2>2 DEF Filed, OfTool
  <2>4. FiledInv'
    BY <1>1, <1>3, <2>2, <2>3, FiledKept DEF ToolTypeOK
  <2>5. ToolTypeOK'
    BY <1>1, <1>4, <2>1 DEF ToolTypeOK
  <2> QED
    BY <1>2, <2>1, <2>4, <2>5
<1>5. CASE /\ saveFaults < MaxSaveFaults /\ saveFaults' = saveFaults + 1
           /\ unsaved' = unsaved \cup {s} /\ UNCHANGED <<timeline, counts>>
  <2>1. RowsInv' /\ Rowed' = Rowed
    BY <1>5, RowsKept
  <2>2. Filed' = Filed
    BY <1>1, <1>5, <2>1 DEF Filed, OfTool
  <2>3. FiledInv'
    BY <1>1, <2>2, FiledKept
  <2>4. ToolTypeOK'
    BY <1>1, <1>5, ToolAssumption DEF ToolTypeOK
  <2> QED
    BY <1>2, <2>1, <2>3, <2>4
<1> QED
  BY <1>4, <1>5 DEF fallback_runs

\* A frame of the pipeline.
LEMMA ToolFrameKeepsTools ==
  ASSUME ToolsInv, TypeOK, ~closed[Caller], ToolFrame, UNCHANGED closed
  PROVE  ToolsInv'
<1>1. ASSUME NEW c \in ToolCalls, tool_in_progress(c) PROVE ToolsInv'
  <2>1. /\ called' = [called EXCEPT ![c] = "running"] /\ called[c] = "new"
        /\ UNCHANGED <<said, saves, fallbacks, unsaved, saveFaults>> /\ recordUnchanged
    BY <1>1 DEF tool_in_progress
  <2>2. \A d \in ToolCalls : Due(called'[d]) = Due(called[d])
    BY <2>1 DEF Due, ToolsInv, ToolTypeOK
  <2>3. Filed' = Filed
    BY <2>1 DEF recordUnchanged, Filed, OfTool, Rowed
  <2>4. ToolTypeOK'
    <3>1. fillerTask' \in BOOLEAN /\ activeCalls' \subseteq ToolCalls
      BY <1>1, ToolAssumption DEF tool_in_progress, ToolsInv, ToolTypeOK
    <3> QED
      BY <2>1, <3>1 DEF recordUnchanged, ToolsInv, ToolTypeOK
  <2> QED
    BY <2>1, <2>2, <2>3, <2>4, PipelineKeepsRecords DEF ToolsInv
<1>2. ASSUME NEW c \in ToolCalls, NEW status \in Answers, tool_answers(c, status) PROVE ToolsInv'
  BY <1>2, ToolOverKeepsRecords DEF tool_answers, Closed
<1>3. ASSUME filler_due PROVE ToolsInv'
  <2>1. fillerTask' = FALSE /\ UNCHANGED <<called, activeCalls>> /\ recordUnchanged
    BY <1>3 DEF filler_due
  <2>2. CASE UNCHANGED <<said, saves, fallbacks, unsaved, saveFaults>>
    <3>1. Filed' = Filed
      BY <2>1, <2>2 DEF recordUnchanged, Filed, OfTool, Rowed
    <3>2. ToolTypeOK'
      BY <2>1, <2>2 DEF recordUnchanged, ToolsInv, ToolTypeOK
    <3> QED
      BY <2>1, <3>1, <3>2, PipelineKeepsRecords DEF ToolsInv
  <2>3. CASE \E i \in Items \ said : /\ said' = said \cup {i}
                                     /\ enqueueSaves(saves, {Save("transcript", i, turnId[Caller])})
    <3>1. PICK i \in Items \ said : /\ said' = said \cup {i}
                                    /\ enqueueSaves(saves, {Save("transcript", i, turnId[Caller])})
      BY <2>3
    <3>2. Save("transcript", i, turnId[Caller]) \in Saves
          /\ Save("transcript", i, turnId[Caller]).of \notin ToolCalls
      BY ToolAssumption DEF Save, Saves, TypeOK
    <3> QED
      BY <2>1, <3>1, <3>2, OtherSaveKeepsRecords DEF recordUnchanged, ToolsInv, ToolTypeOK
  <2> QED
    BY <1>3, <2>2, <2>3 DEF filler_due
<1>4. ASSUME model_text \/ tools_interrupted \/ OtherFrame PROVE ToolsInv'
  <2>1. /\ UNCHANGED <<said, saves, fallbacks, unsaved, saveFaults>> /\ recordUnchanged
        /\ fillerTask' \in BOOLEAN /\ activeCalls' \subseteq ToolCalls
    BY <1>4 DEF model_text, tools_interrupted, FillerDropped, OtherFrame, toolVars,
                recordUnchanged, ToolsInv, ToolTypeOK
  <2>2. /\ \A d \in ToolCalls : Due(called'[d]) = Due(called[d])
        /\ called' \in [ToolCalls -> Closed \cup {"new", "running", "interrupted", "gone"}]
    BY <1>4 DEF model_text, tools_interrupted, Unanswered, OtherFrame, toolVars, Due, ToolsInv,
                ToolTypeOK
  <2>3. Filed' = Filed
    BY <2>1 DEF recordUnchanged, Filed, OfTool, Rowed
  <2>4. ToolTypeOK'
    BY <2>1, <2>2 DEF recordUnchanged, ToolsInv, ToolTypeOK
  <2> QED
    BY <2>1, <2>2, <2>3, <2>4, PipelineKeepsRecords DEF ToolsInv
<1> QED
  BY <1>1, <1>2, <1>3, <1>4 DEF ToolFrame

\* The caller is heard, or a component reports.
LEMMA SaidKeepsTools ==
  ASSUME ToolsInv, TypeOK, transcript_said \/ diagnosed
  PROVE  ToolsInv'
<1>1. ~closed[Caller] /\ UNCHANGED <<closed, called, activeCalls, fillerTask>> /\ recordUnchanged
  BY DEF transcript_said, diagnosed, vars
<1>2. said' \subseteq Items
  BY DEF transcript_said, diagnosed, ToolsInv, ToolTypeOK
<1>3. PICK x \in Saves : x.of \notin ToolCalls /\ enqueueSaves(saves, {x})
  <2>1. CASE transcript_said
    <3>1. PICK i \in Items : enqueueSaves(saves, {Save("transcript", i, turnId[Caller])})
      BY <2>1 DEF transcript_said
    <3>2. Save("transcript", i, turnId[Caller]) \in Saves
          /\ Save("transcript", i, turnId[Caller]).of \notin ToolCalls
      BY ToolAssumption DEF Save, Saves, TypeOK
    <3> QED
      BY <3>1, <3>2
  <2>2. CASE diagnosed
    <3>1. Save("warning", "pipeline", turnId[Caller]) \in Saves
          /\ Save("warning", "pipeline", turnId[Caller]).of \notin ToolCalls
      BY ToolAssumption DEF Save, Saves, Events, Reporters, TypeOK
    <3> QED
      BY <2>2, <3>1 DEF diagnosed
  <2> QED
    BY <2>1, <2>2
<1> QED
  BY <1>1, <1>2, <1>3, OtherSaveKeepsRecords DEF recordUnchanged, ToolsInv, ToolTypeOK

\* The end of the session, step by step, and the watchdog.
LEMMA EndKeepsTools ==
  ASSUME ToolsInv, TypeOK,
         \/ ~closed[Caller] /\ pipeline_stops
         \/ wait_for_key \/ drain \/ finalize_caller \/ caller_abandoned
  PROVE  ToolsInv'
<1> USE DEF ToolsInv
<1>1. UNCHANGED <<said, saves, fallbacks, timeline, counts, unsaved, saveFaults>>
  BY DEF pipeline_stops, wait_for_key, drain, finalize_caller, caller_abandoned, TeardownStep
<1>2. Filed' = Filed
  BY <1>1 DEF Filed, OfTool, Rowed
<1>3. RowsInv'
  BY <1>1, RowsKept
<1>4. \A d \in ToolCalls : Due(called'[d]) = Due(called[d])
  BY DEF pipeline_stops, wait_for_key, drain, finalize_caller, caller_abandoned, TeardownStep,
         Unanswered, Due, ToolTypeOK
<1>5. ended' # "watchdog" => ended # "watchdog"
  BY DEF pipeline_stops, wait_for_key, drain, finalize_caller, caller_abandoned, TeardownStep
<1>6. FiledInv'
  BY <1>2, <1>4, <1>5, FiledKept
<1>7. ToolTypeOK'
  <2>1. called' \in [ToolCalls -> Closed \cup {"new", "running", "interrupted", "gone"}]
    BY DEF pipeline_stops, wait_for_key, drain, finalize_caller, caller_abandoned, TeardownStep,
           Unanswered, ToolTypeOK
  <2>2. /\ fillerTask' \in BOOLEAN /\ activeCalls' \subseteq ToolCalls /\ gathered' \subseteq Saves
        /\ teardown' \in {"live", "waiting", "draining", "drained", "over"}
        /\ ended' \in {"no", "session", "watchdog"}
    BY DEF pipeline_stops, wait_for_key, drain, finalize_caller, caller_abandoned, TeardownStep,
           ToolTypeOK
  <2> QED
    BY <1>1, <2>1, <2>2 DEF ToolTypeOK
<1>8. EndInv'
  <2>1. CASE ~closed[Caller] /\ pipeline_stops
    BY <2>1, ToolAssumption DEF pipeline_stops, Teardown, EndInv, TypeOK
  <2>2. CASE wait_for_key
    BY <2>2 DEF wait_for_key, TeardownStep, vars, EndInv, OfTool
  <2>3. CASE drain
    BY <2>3 DEF drain, TeardownStep, vars, EndInv, OfTool
  <2>4. CASE finalize_caller
    BY <2>4 DEF finalize_caller, TeardownStep, vars, EndInv, OfTool
  <2>5. CASE caller_abandoned
    BY <2>5 DEF caller_abandoned, vars, EndInv, OfTool
  <2> QED
    BY <2>1, <2>2, <2>3, <2>4, <2>5
<1> QED
  BY <1>3, <1>6, <1>7, <1>8

LEMMA NextKeepsToolsInv ==
  ASSUME ToolsInv, TypeOK, [ToolsNext]_<<vars, toolVars>>
  PROVE  ToolsInv'
<1>1. CASE UNCHANGED <<toolVars, closed>>
  <2>1. Filed' = Filed /\ RowsInv'
    BY <1>1, RowsKept DEF toolVars, Filed, OfTool, Rowed, ToolsInv
  <2>2. FiledInv'
    BY <1>1, <2>1, FiledKept DEF toolVars, ToolsInv
  <2> QED
    BY <1>1, <2>1, <2>2 DEF toolVars, ToolsInv, ToolTypeOK, EndInv, OfTool
<1>2. CASE ~closed[Caller] /\ ToolFrame /\ UNCHANGED closed
  BY <1>2, ToolFrameKeepsTools
<1>3. CASE \E c \in ToolCalls : tool_cancelled(c)
  <2>1. PICK c \in ToolCalls : tool_cancelled(c)
    BY <1>3
  <2> QED
    BY <2>1, ToolOverKeepsRecords DEF tool_cancelled, Closed, vars
<1>4. CASE transcript_said \/ diagnosed
  BY <1>4, SaidKeepsTools
<1>5. CASE \E s \in saves : save_runs(s)
  BY <1>5, SaveRunsKeepsTools
<1>6. CASE \E s \in fallbacks : fallback_runs(s)
  BY <1>6, FallbackRunsKeepsTools
<1>7. CASE \/ ~closed[Caller] /\ pipeline_stops
           \/ wait_for_key \/ drain \/ finalize_caller \/ caller_abandoned
  BY <1>7, EndKeepsTools
<1>8. CASE WorkerStep /\ UNCHANGED toolVars
  <2>1. UNCHANGED closed
    BY <1>8 DEF WorkerStep, TakeItem, RegisterChild, ChildEnds, ChildCancelled
  <2> QED
    BY <1>1, <1>8, <2>1
<1>9. CASE UNCHANGED <<vars, toolVars>>
  BY <1>1, <1>9 DEF vars
<1> QED
  BY <1>2, <1>3, <1>4, <1>5, <1>6, <1>7, <1>8, <1>9 DEF ToolsNext

\* The records follow the gate and its lane: every step is one of TurnGate or leaves it alone.
LEMMA ToolsAreTurns ==
  ASSUME ToolTypeOK, TypeOK, [ToolsNext]_<<vars, toolVars>>
  PROVE  [Next]_vars
<1>1. ASSUME ~closed[Caller], ToolFrame, UNCHANGED closed, UNCHANGED workVars
      PROVE  [Next]_vars
  <2>1. Frame(Caller) \/ UNCHANGED vars
    BY <1>1 DEF ToolFrame, tool_in_progress, tool_answers, filler_due, model_text,
                tools_interrupted, OtherFrame, Frame
  <2> QED
    BY <1>1, <2>1, ToolAssumption DEF Next, SessionStep
<1>2. ASSUME ~closed[Caller], pipeline_stops, UNCHANGED workVars
      PROVE  [Next]_vars
  BY <1>2, ToolAssumption DEF pipeline_stops, Next, SessionStep
<1>3. ASSUME NEW s \in saves, save_runs(s)
      PROVE  [Next]_vars
  <2>1. UNCHANGED vars \/ (s.kind = "transcript" /\ enqueue_enrichment(s.of))
    BY <1>3 DEF save_runs
  <2>2. s.kind = "transcript" => s.of \in Items
    BY DEF ToolTypeOK, Saves, Events
  <2> QED
    BY <2>1, <2>2 DEF Next
<1>4. ASSUME \/ \E c \in ToolCalls : tool_cancelled(c)
             \/ transcript_said \/ diagnosed \/ \E s \in fallbacks : fallback_runs(s)
             \/ wait_for_key \/ drain \/ finalize_caller \/ caller_abandoned
      PROVE  UNCHANGED vars
  BY <1>4 DEF tool_cancelled, transcript_said, diagnosed, fallback_runs, wait_for_key, drain,
              finalize_caller, caller_abandoned, TeardownStep
<1> QED
  BY <1>1, <1>2, <1>3, <1>4 DEF ToolsNext, Next

\* The records of the tools stay sound, with the gate and the lane beside them, however
\* barge-ins, failed journals, answers that were lost, fallbacks, the drain, a teardown that
\* waits and the watchdog overlap.
THEOREM ToolsAlwaysSound == ToolsSpec => [](GateInv /\ ToolsInv)
<1>1. ToolsInit => GateInv /\ ToolsInv
  BY InitGateInv, InitToolsInv DEF ToolsInit
<1>2. GateInv /\ ToolsInv /\ [ToolsNext]_<<vars, toolVars>> => (GateInv /\ ToolsInv)'
  <2> SUFFICES ASSUME GateInv, ToolsInv, [ToolsNext]_<<vars, toolVars>>
               PROVE  GateInv' /\ ToolsInv'
    OBVIOUS
  <2>1. ToolsInv'
    BY NextKeepsToolsInv DEF GateInv
  <2>2. [Next]_vars
    BY ToolsAreTurns DEF GateInv, ToolsInv
  <2> QED
    BY <2>1, <2>2, NextKeepsGateInv
<1> QED
  BY <1>1, <1>2, PTL DEF ToolsSpec

\* The records of the tools are of their types.
THEOREM ToolsTypeCorrect == ToolsSpec => []ToolTypeOK
<1>1. ToolsInv => ToolTypeOK
  BY DEF ToolsInv
<1> QED
  BY <1>1, ToolsAlwaysSound, PTL

\* What a call records of its tools adds up, and is complete when its session ends it.
THEOREM ToolsAlwaysOnRecord == ToolsSpec => []ToolsOnRecord
<1>1. ASSUME ToolsInv PROVE OneRowEach
  <2>1. \A i \in DOMAIN timeline : timeline[i].of \in ToolCalls => timeline[i] \in Filed
    BY DEF Filed, OfTool, Rowed
  <2>2. ASSUME NEW i \in DOMAIN timeline, NEW j \in DOMAIN timeline,
               timeline[i].of = timeline[j].of, timeline[i].of \in ToolCalls
        PROVE  /\ timeline[i].turn = timeline[j].turn
               /\ (timeline[i].kind \in Events) = (timeline[j].kind \in Events) => i = j
    <3>1. timeline[i].turn = timeline[j].turn
      BY <1>1, <2>1, <2>2 DEF ToolsInv, FiledInv
    <3>2. timeline[i].kind \in Due(called[timeline[i].of])
          /\ timeline[j].kind \in Due(called[timeline[i].of])
      BY <1>1, <2>1, <2>2 DEF ToolsInv, FiledInv
    <3>3. (timeline[i].kind \in Events) = (timeline[j].kind \in Events)
            => timeline[i].kind = timeline[j].kind
      BY <3>2 DEF Due, Events
    <3>4. timeline[i] \in Saves /\ timeline[j] \in Saves
      BY <1>1 DEF ToolsInv, ToolTypeOK
    <3>5. timeline[i].kind = timeline[j].kind => timeline[i] = timeline[j]
      BY <2>2, <3>1, <3>4 DEF Saves
    <3> QED
      BY <1>1, <3>1, <3>3, <3>5 DEF ToolsInv, RowsInv
  <2> QED
    BY <1>1, <2>2 DEF OneRowEach, ToolsInv, RowsInv
<1>2. ASSUME ToolsInv, ended = "session", NEW c \in ToolCalls, NEW kind \in Due(called[c])
      PROVE  OnRecord(kind, c)
  <2>1. PICK s \in Filed : s.of = c /\ s.kind = kind
    BY <1>2 DEF ToolsInv, FiledInv
  <2>2. s \in unsaved \/ s \in Rowed
    BY <1>2 DEF ToolsInv, EndInv, Filed, OfTool
  <2>3. s \in Saves
    BY <1>2, <2>2 DEF ToolsInv, ToolTypeOK, Rowed
  <2>4. s = Save(kind, c, s.turn) /\ s.turn \in 0..MaxTurns
    BY <2>1, <2>3 DEF Saves, Save
  <2>5. s \in unsaved \/ InTimeline(s)
    BY <2>2 DEF Rowed, InTimeline
  <2> QED
    BY <2>4, <2>5 DEF OnRecord
<1>3. ToolsInv => ToolsOnRecord
  BY <1>1, <1>2 DEF ToolsOnRecord, CompleteAtEnd, ToolsInv, RowsInv
<1> QED
  BY <1>3, ToolsAlwaysSound, PTL
====
