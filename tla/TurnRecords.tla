---- MODULE TurnRecords ----
(***************************************************************************)
(* What is recorded of the turns of one call.  The boundary processors     *)
(* enqueue a payload with the first audio of a turn and with an            *)
(* interruption (core/processors.py); the page, told of each stage, times  *)
(* the first audio it plays and posts the turn again (App.jsx,             *)
(* api/telemetry.py); save_call_turn merges the payloads into the turn's   *)
(* row, counts interruptions and summarises the latencies, and             *)
(* finalize_call takes the last summary (services/calls.py).               *)
(*                                                                         *)
(* The messages of the server reach the page at once and in order; what    *)
(* the page posts may come late or never.  Every answer is a direct one,   *)
(* without tools, and a latency is whether there is one.                   *)
(***************************************************************************)
EXTENDS TurnGate, FiniteSets

CONSTANTS
  MaxLane,       \* bound: saves that wait in the lane
  MaxRepeats     \* bound: saves repeated because their commit was answered by an error

ASSUME RecordsAssumption == MaxLane \in Nat \ {0} /\ MaxRepeats \in Nat

VARIABLES
  browser,       \* whether the client is the page, which posts what it hears
  inputMode,     \* TurnLatencyState.input_mode
  emitted,       \* latency_stages_emitted has "stt"
  playing,       \* audio of the reply is left to play
  timing,        \* voiceTurnTimingRef: inputMode, and which of its moments are known
  pending,       \* pendingLatencyRef: the turn, its mode, latency_complete
  isVoiceBusy,
  posts,         \* voice-latency requests of the page
  lane,          \* save_call_turn tasks of the call, in order
  rows,          \* CallTurn by sequence
  interruptions, \* Call.interruption_count
  summary,       \* what the call's average and percentiles are taken from
  open,          \* the call is not terminal
  repeats,
  rewritten      \* history: turns whose row lost its interruption again

serverVars == <<browser, inputMode, emitted, playing>>
pageVars == <<timing, pending, isVoiceBusy, posts>>
callVars == <<lane, rows, interruptions, summary, open, repeats, rewritten>>
recordVars == <<serverVars, pageVars, callVars>>

Turns == 0..MaxTurns
NoTiming == [mode |-> "none", stopped |-> FALSE, awaiting |-> FALSE, heard |-> FALSE]
NoPending == [turn |-> 0, mode |-> "none", complete |-> FALSE]
NoRow == [saved |-> FALSE, interrupted |-> FALSE, sample |-> FALSE, timed |-> FALSE]

RecordsInit ==
  /\ browser \in BOOLEAN /\ inputMode = "voice" /\ emitted = FALSE /\ playing = FALSE
  /\ timing = NoTiming /\ pending = NoPending /\ isVoiceBusy = FALSE /\ posts = {}
  /\ lane = <<>> /\ rows = [t \in Turns |-> NoRow] /\ interruptions = 0
  /\ summary = [basis |-> "none", turns |-> {}]
  /\ open = TRUE /\ repeats = 0 /\ rewritten = {}

---------------------------------------------------------------------------
\* The page.
Shown(effect) == IF browser THEN effect ELSE UNCHANGED pageVars

\* commitClientLatency: once the first audio was both announced as complete
\* and heard, the turn is posted, with the time since the caller stopped.
commitClientLatency(p, t) ==
  /\ timing' = t
  /\ IF p.complete /\ t.heard
     THEN /\ pending' = NoPending
          /\ posts' = posts \cup
               {[turn |-> p.turn,
                 sample |-> p.mode = "voice" /\ t.mode # "text" /\ t.stopped]}
     ELSE pending' = p /\ UNCHANGED posts

turn_metrics(turn) ==
  /\ commitClientLatency([turn |-> turn, mode |-> inputMode, complete |-> TRUE], timing)
  /\ UNCHANGED isVoiceBusy

recordRemoteAudioLevel ==
  /\ timing.awaiting /\ playing
  /\ commitClientLatency(pending, [timing EXCEPT !.awaiting = FALSE, !.heard = TRUE])
  /\ UNCHANGED <<vars, serverVars, isVoiceBusy, callVars>>

\* UserStartedSpeaking begins a new timing only after audio was heard.
page_user_started ==
  /\ isVoiceBusy' = TRUE
  /\ IF timing.mode # "voice" \/ timing.heard
     THEN /\ timing' = [NoTiming EXCEPT !.mode = "voice"]
          /\ pending' = NoPending
     ELSE UNCHANGED <<timing, pending>>
  /\ UNCHANGED posts

page_user_stopped ==
  /\ timing' = [timing EXCEPT !.stopped = TRUE]
  /\ UNCHANGED <<pending, isVoiceBusy, posts>>

page_tts_started ==
  /\ isVoiceBusy' = TRUE
  /\ timing' = [timing EXCEPT !.awaiting = TRUE]
  /\ UNCHANGED <<pending, posts>>

page_tts_stopped == isVoiceBusy' = FALSE /\ UNCHANGED <<timing, pending, posts>>

\* sendTextMessage, and turn_metrics of the stages before the first audio.
page_context(typed, turn, announced) ==
  /\ typed => ~isVoiceBusy
  /\ timing' = IF typed THEN [NoTiming EXCEPT !.mode = "text"] ELSE timing
  /\ pending' = IF announced THEN [turn |-> turn, mode |-> inputMode', complete |-> FALSE]
                ELSE IF typed THEN NoPending ELSE pending
  /\ UNCHANGED <<isVoiceBusy, posts>>

---------------------------------------------------------------------------
\* The server's boundaries.
Opened(s) == turnId'[s] # turnId[s]
enqueue(turn, kind, sample) ==
  /\ Len(lane) < MaxLane
  /\ lane' = Append(lane, [turn |-> turn, kind |-> kind, sample |-> sample])
Unsaved == UNCHANGED <<rows, interruptions, summary, open, repeats, rewritten>>

user_started(s) ==
  /\ VADUserStartedSpeaking(s)
  /\ inputMode' = "voice" /\ emitted' = FALSE
  /\ Shown(page_user_started)
  /\ UNCHANGED <<browser, playing, callVars>>

user_stopped(s) ==
  /\ UserStoppedSpeaking(s)
  /\ inputMode' = IF Opened(s) THEN "voice" ELSE inputMode
  /\ emitted' = (emitted /\ ~Opened(s))
  /\ Shown(page_user_stopped)
  /\ UNCHANGED <<browser, playing, callVars>>

\* The context of a turn that was said, or of a text that the page has sent.
context(s) ==
  /\ LLMContext(s)
  /\ inputMode' = IF Opened(s) THEN "text" ELSE inputMode
  /\ emitted' = TRUE
  /\ \E typed \in BOOLEAN : Shown(page_context(typed, turnId'[s], Opened(s) \/ ~emitted))
  /\ UNCHANGED <<browser, playing, callVars>>

tts_started(s) ==
  /\ audio[s] # {} /\ browser /\ page_tts_started
  /\ UNCHANGED <<vars, serverVars, callVars>>

first_audio(s) ==
  /\ TTSAudio(s) /\ playing' = TRUE
  /\ Shown(turn_metrics(turnId[s]))
  /\ enqueue(turnId[s], "audio", FALSE) /\ Unsaved
  /\ UNCHANGED <<browser, inputMode, emitted>>

tts_stopped(s) ==
  /\ TTSStopped(s)
  /\ Shown(page_tts_stopped)
  /\ UNCHANGED <<serverVars, callVars>>

\* A turn is saved as interrupted for as long as cancelled is set, whether this
\* interruption or an earlier one has set it.
interrupted(s) ==
  /\ Interruption(s) /\ playing' = FALSE
  /\ IF cancelled'[s] THEN enqueue(turnId[s], "interrupted", FALSE) ELSE UNCHANGED lane
  /\ Unsaved
  /\ UNCHANGED <<browser, inputMode, emitted, pageVars>>

other_frame(s) ==
  /\ Transcription(s) \/ LLMText(s) \/ LLMFullResponseEnd(s)
  /\ UNCHANGED recordVars

RecordedFrame(s) ==
  \/ user_started(s) \/ user_stopped(s) \/ context(s) \/ tts_started(s)
  \/ first_audio(s) \/ tts_stopped(s) \/ interrupted(s) \/ other_frame(s)

---------------------------------------------------------------------------
\* record_voice_latency: a terminal call refuses the post, or it was lost.
record_voice_latency ==
  /\ \E p \in posts :
       /\ posts' = posts \ {p}
       /\ \/ open /\ enqueue(p.turn, "client", p.sample)
          \/ UNCHANGED lane
  /\ Unsaved /\ UNCHANGED <<vars, serverVars, timing, pending, isVoiceBusy>>

\* The payload of a client stands for all of its fields, the missing ones as null.
Merged(row, p) ==
  [saved |-> TRUE,
   interrupted |-> p.kind = "interrupted",
   sample |-> IF p.kind = "client" THEN p.sample ELSE row.sample,
   timed |-> row.timed \/ p.kind # "interrupted"]

\* _perceived_latency_sample of a row, and the turns that have one.
Sampled(r) == {t \in Turns : r[t].sample /\ ~r[t].interrupted}
summarize_direct_perceived_latency(r) ==
  IF Sampled(r) = {} THEN [basis |-> "none", turns |-> {}]
  ELSE [basis |-> "direct", turns |-> Sampled(r)]

\* What a payload adds to interruption_count.
Added(row, p) == IF p.kind = "interrupted" /\ ~row.interrupted THEN 1 ELSE 0

\* Fault: a call that is terminal is written to.
writable_always == TRUE

\* The status that save_call_turn requires, under the lock of the call.
writable == open

\* The commit may be answered by an error: the task is then attempted again.
save_call_turn ==
  /\ lane # <<>>
  /\ \/ lane' = Tail(lane) /\ UNCHANGED repeats
     \/ repeats < MaxRepeats /\ repeats' = repeats + 1 /\ UNCHANGED lane
  /\ LET p == Head(lane)
         row == rows[p.turn]
     IN IF writable
        THEN /\ rows' = [rows EXCEPT ![p.turn] = Merged(row, p)]
             /\ interruptions' = interruptions + Added(row, p)
             /\ summary' = IF p.kind = "client" /\ p.sample
                           THEN summarize_direct_perceived_latency(rows') ELSE summary
             /\ rewritten' = IF row.interrupted /\ p.kind # "interrupted"
                             THEN rewritten \cup {p.turn} ELSE rewritten
        ELSE UNCHANGED <<rows, interruptions, summary, rewritten>>
  /\ UNCHANGED <<vars, serverVars, pageVars, open>>

\* The direct summary; without a direct sample every latency; else what there was.
FinalSummary ==
  IF Sampled(rows) # {} THEN summarize_direct_perceived_latency(rows)
  ELSE IF \E t \in Turns : rows[t].timed
       THEN [basis |-> "all", turns |-> {t \in Turns : rows[t].timed}]
       ELSE summary

\* The teardown, whose drain may time out, or the watchdog.
finalize_call ==
  /\ open /\ (\E s \in Sessions : closed[s])
  /\ open' = FALSE
  /\ summary' = FinalSummary
  /\ UNCHANGED <<vars, serverVars, pageVars, lane, rows, interruptions, repeats, rewritten>>

RecordsNext ==
  \/ \E s \in Sessions :
       /\ ~closed[s]
       /\ \/ RecordedFrame(s) /\ UNCHANGED closed
          \/ Teardown(s) /\ UNCHANGED recordVars
       /\ UNCHANGED workVars
  \/ recordRemoteAudioLevel \/ record_voice_latency \/ save_call_turn \/ finalize_call

RecordsSpec == Init /\ RecordsInit /\ [][RecordsNext]_<<vars, recordVars>>

---------------------------------------------------------------------------
Modes == {"none", "voice", "text"}
Timings == [mode : Modes, stopped : BOOLEAN, awaiting : BOOLEAN, heard : BOOLEAN]
Pendings == [turn : Turns, mode : Modes, complete : BOOLEAN]
Payloads == [turn : Turns, kind : {"audio", "interrupted", "client"}, sample : BOOLEAN]
SavedRows == [saved : BOOLEAN, interrupted : BOOLEAN, sample : BOOLEAN, timed : BOOLEAN]
Summaries == [basis : {"none", "direct", "all"}, turns : SUBSET Turns]

RecordsTypeOK ==
  /\ browser \in BOOLEAN /\ inputMode \in Modes /\ emitted \in BOOLEAN /\ playing \in BOOLEAN
  /\ timing \in Timings /\ pending \in Pendings /\ isVoiceBusy \in BOOLEAN
  /\ posts \subseteq [turn : Turns, sample : BOOLEAN]
  /\ lane \in Seq(Payloads) /\ rows \in [Turns -> SavedRows]
  /\ interruptions \in Nat /\ summary \in Summaries
  /\ open \in BOOLEAN /\ repeats \in 0..MaxRepeats /\ rewritten \subseteq Turns

\* What a call says of its turns adds up.  It counts the turns that were
\* interrupted, each once however often it was saved, but for those that a late
\* post of the page or a stale cancellation rewrote; and once it is terminal its
\* summary is that of its rows, interruptions saved after the samples included,
\* and no save that comes later moves them apart.
TurnsAddUp ==
  /\ rewritten = {} => interruptions = Cardinality({t \in Turns : rows[t].interrupted})
  /\ ~open => summary.turns = IF Sampled(rows) # {} THEN Sampled(rows)
                             ELSE {t \in Turns : rows[t].timed}
====
