---- MODULE SpeechFinalization ----
(***************************************************************************)
(* MoonshineSTTService (providers/local/stt/moonshine_stt.py): from the    *)
(* words a caller speaks to the final transcripts of the call.             *)
(*                                                                         *)
(* Four actors share the service: the task that handles the call's frames, *)
(* the event pump, the watchdog of the last endpoint, and the one thread   *)
(* of the executor that feeds the native stream, which reports lines from  *)
(* a thread of its own.  A task's step runs from one await to the next.    *)
(* Interim transcripts and errors of the stream, which end the call, are   *)
(* left out.                                                               *)
(***************************************************************************)
EXTENDS Integers, SequencesExt

CONSTANTS
  MaxWords,       \* bound: pieces of speech the caller utters
  MaxStarts       \* bound: times the VAD hears the caller start

ASSUME SpeechAssumption == MaxWords \in Nat /\ MaxStarts \in Nat

VARIABLES
  native,       \* _stream: its number, and the id and words of its open line
  finals,       \* _events, without the interim ones
  finalCount,   \* _native_final_count
  startCount,   \* _speech_start_final_count
  completed,    \* _completed, with whether the line was of an older stream
  executor,     \* jobs of the native executor
  ready,        \* _events_ready
  gate,         \* _event_delivery_allowed
  completion,   \* _finalization_event
  frames, pump, watchdog,   \* where each task is
  cancelled,    \* the watchdog was cancelled and has not seen it yet
  batch,        \* finals that the holder of _drain_lock pushes
  speaking,     \* the VAD hears the caller
  starts,       \* times it has started to
  said,         \* history: words sent to the service
  covered,      \* history: those sent before the last endpoint
  waiting,      \* history: endpoints that wait for a final
  forwarded,    \* history: those whose stop frame was forwarded
  delivered,    \* history: words in pushed transcripts
  excused       \* history: words whose transcript nothing waits for

streamVars == <<native, completed, executor>>
eventVars == <<finals, finalCount, ready>>
endpointVars == <<startCount, gate, completion>>
taskVars == <<frames, pump, watchdog, cancelled, batch>>
callerVars == <<speaking, starts, said, covered>>
orderVars == <<waiting, forwarded>>
outcomeVars == <<delivered, excused>>
speechVars == <<streamVars, eventVars, endpointVars, taskVars, callerVars, orderVars,
                outcomeVars>>

Words == 1..MaxWords
Tasks == {"frames", "pump", "watchdog"}
None == -1

Stream(n) == [number |-> n, open |-> TRUE, line |-> 0, words |-> {}]

SpeechInit ==
  /\ native = Stream(1) /\ completed = {} /\ executor = <<>>
  /\ finals = <<>> /\ finalCount = 0 /\ ready = FALSE
  /\ startCount = None /\ gate = TRUE /\ completion = "none"
  /\ frames = "idle" /\ pump = "wait" /\ watchdog = "none" /\ cancelled = FALSE
  /\ batch = [t \in Tasks |-> {}]
  /\ speaking = FALSE /\ starts = 0 /\ said = 0 /\ covered = {}
  /\ waiting = 0 /\ forwarded = 0
  /\ delivered = {} /\ excused = {}

---------------------------------------------------------------------------
\* _on_transcript_event queues a line that the native stream has completed.
on_transcript_event ==
  /\ finals' = Append(finals, [stream |-> native.number, line |-> native.line,
                               words |-> native.words, after |-> waiting])
  /\ finalCount' = finalCount + 1
  /\ ready' = TRUE

\* The native stream completes a line at any pause, late, or never.
LineCompleted ==
  /\ native.open /\ native.words # {}
  /\ on_transcript_event
  /\ native' = [native EXCEPT !.line = @ + 1, !.words = {}]
  /\ UNCHANGED <<completed, executor, endpointVars, taskVars, callerVars, orderVars,
                 outcomeVars>>

\* The open stream, or the one that _ensure_stream_sync creates: it numbers
\* its lines from the start again.
Current == IF native.open THEN native ELSE Stream(native.number + 1)

\* Fault: a new stream does not forget the line ids of the last one.
hearKeepsIds(words) ==
  /\ native' = [Current EXCEPT !.words = @ \cup words]
  /\ UNCHANGED completed

\* _add_audio_sync.
hear(words) ==
  /\ native' = [Current EXCEPT !.words = @ \cup words]
  /\ completed' = IF native.open THEN completed ELSE {}

\* One job of the executor: audio, with a word or silent, or a flush, whose
\* stop() completes the open line.
RunJob ==
  /\ executor # <<>> /\ executor' = Tail(executor)
  /\ IF Head(executor).kind = "audio"
     THEN hear(Head(executor).words) /\ UNCHANGED eventVars
     ELSE /\ native' = [native EXCEPT !.open = FALSE, !.words = {}]
          /\ IF native.open /\ native.words # {} THEN on_transcript_event
             ELSE UNCHANGED eventVars
          /\ UNCHANGED completed
  /\ UNCHANGED <<endpointVars, taskVars, callerVars, orderVars, outcomeVars>>

Submit(kind, words) == executor' = Append(executor, [kind |-> kind, words |-> words])
Pending(kind) == \E i \in DOMAIN executor : executor[i].kind = kind

---------------------------------------------------------------------------
\* _pending_frames_unlocked, by the task that takes _drain_lock: it takes the
\* events and drops those whose line id is completed.
Seen(i) ==
  completed \cup {[line |-> finals[j].line, late |-> finals[j].stream # native.number] :
                    j \in 1..(i - 1)}
Kept == {i \in DOMAIN finals : \A mark \in Seen(i) : mark.line # finals[i].line}

\* An event of an older stream, delivered after the new one forgot the ids,
\* marks an id that the new stream will use.
Masked ==
  {i \in DOMAIN finals \ Kept :
     \E mark \in Seen(i) : mark.line = finals[i].line /\ mark.late}

take(t) ==
  /\ \A o \in Tasks : batch[o] = {}
  /\ finals' = <<>>
  /\ batch' = [batch EXCEPT ![t] = {finals[i] : i \in Kept}]
  /\ completed' = completed \cup
       {[line |-> finals[i].line, late |-> finals[i].stream # native.number] : i \in Kept}
  /\ completion' = IF Kept # {} /\ completion = "unset" THEN "set" ELSE completion
  /\ excused' = excused \cup UNION {finals[i].words : i \in Masked}
  /\ UNCHANGED <<native, executor, finalCount, ready, startCount, gate, callerVars,
                 orderVars, delivered, cancelled>>

push(t) ==
  /\ delivered' = delivered \cup UNION {e.words : e \in batch[t]}
  /\ batch' = [batch EXCEPT ![t] = {}]
  /\ UNCHANGED <<streamVars, eventVars, endpointVars, callerVars, orderVars, excused,
                 cancelled>>

---------------------------------------------------------------------------
\* _run_event_pump.
pump_wakes ==
  /\ pump = "wait" /\ ready
  /\ ready' = FALSE
  /\ pump' = IF gate THEN "drain" ELSE "gate"
  /\ UNCHANGED <<streamVars, finals, finalCount, endpointVars, frames, watchdog, cancelled,
                 batch, callerVars, orderVars, outcomeVars>>

pump_allowed ==
  /\ pump = "gate" /\ gate
  /\ pump' = "drain"
  /\ UNCHANGED <<streamVars, eventVars, endpointVars, frames, watchdog, cancelled, batch,
                 callerVars, orderVars, outcomeVars>>

pump_drains ==
  /\ \/ pump = "drain" /\ take("pump") /\ pump' = "push"
     \/ pump = "push" /\ push("pump") /\ pump' = "wait"
  /\ UNCHANGED <<frames, watchdog>>

run_event_pump == frames # "closed" /\ (pump_wakes \/ pump_allowed \/ pump_drains)

---------------------------------------------------------------------------
\* _await_native_finalization.  Its end forgets the endpoint's event.
watchdog_ends ==
  /\ watchdog' = "none" /\ completion' = "none"
  /\ UNCHANGED <<startCount, gate, frames, pump, callerVars, orderVars, native, completed>>

final_arrived ==
  /\ watchdog = "waiting" /\ completion = "set"
  /\ watchdog_ends
  /\ UNCHANGED <<executor, eventVars, cancelled, batch, outcomeVars>>

\* The grace ends; it is longer than the forwarding of a stop frame.
grace_ends ==
  /\ watchdog = "waiting" /\ completion = "unset" /\ frames # "forward"
  /\ Submit("flush", {})
  /\ watchdog' = "flushing"
  /\ UNCHANGED <<native, completed, eventVars, endpointVars, frames, pump, cancelled, batch,
                 callerVars, orderVars, outcomeVars>>

fallback_pushes ==
  \/ /\ watchdog = "flushing" /\ ~Pending("flush")
     /\ take("watchdog") /\ watchdog' = "push"
     /\ UNCHANGED <<frames, pump>>
  \/ /\ watchdog = "push" /\ watchdog_ends
     /\ delivered' = delivered \cup UNION {e.words : e \in batch["watchdog"]}
     /\ batch' = [batch EXCEPT !["watchdog"] = {}]
     /\ UNCHANGED <<executor, eventVars, cancelled, excused>>

\* The flush that did not start is withdrawn.
flush_withdrawn ==
  IF Pending("flush")
  THEN executor' = RemoveAt(executor, CHOOSE i \in DOMAIN executor : executor[i].kind = "flush")
  ELSE UNCHANGED executor

\* The cancellation takes effect; finals that were taken and not pushed yet are lost.
watchdog_cancelled ==
  /\ watchdog # "none" /\ cancelled
  /\ watchdog' = "none" /\ cancelled' = FALSE
  /\ flush_withdrawn
  /\ excused' = excused \cup UNION {e.words : e \in batch["watchdog"]}
  /\ batch' = [batch EXCEPT !["watchdog"] = {}]
  /\ UNCHANGED <<native, completed, eventVars, endpointVars, frames, pump, callerVars,
                 orderVars, delivered>>

await_native_finalization ==
  \/ ~cancelled /\ (final_arrived \/ grace_ends \/ fallback_pushes)
  \/ watchdog_cancelled

---------------------------------------------------------------------------
\* run_stt: the audio goes to the executor, then the events are pushed.
run_stt(words) ==
  /\ frames = "idle" /\ frames' = "audio"
  /\ Submit("audio", words)
  /\ said' = said + (IF words = {} THEN 0 ELSE 1)
  /\ UNCHANGED <<native, completed, eventVars, endpointVars, pump, watchdog, cancelled,
                 batch, speaking, starts, covered, orderVars, outcomeVars>>

\* A frame that first ends the watchdog of the last endpoint.
cancel_finalization_watchdog(pc) ==
  /\ frames = "idle" /\ frames' = pc
  /\ cancelled' = (watchdog # "none")
  /\ completion' = "none"
  /\ UNCHANGED <<streamVars, eventVars, startCount, gate, pump, watchdog, batch,
                 callerVars, orderVars, outcomeVars>>

\* VADUserStartedSpeakingFrame.
vad_start ==
  /\ frames = "start" /\ watchdog = "none"
  /\ frames' = "idle" /\ speaking' = TRUE /\ starts' = starts + 1
  /\ startCount' = finalCount
  /\ UNCHANGED <<streamVars, eventVars, gate, completion, pump, watchdog, cancelled, batch,
                 said, covered, orderVars, outcomeVars>>

AlreadyComplete == startCount # None /\ finalCount > startCount

\* VADUserStoppedSpeakingFrame.  A final since the start answers the endpoint.
\* A pump that waits for the drain lock runs before the next frame does.
stop_is_complete ==
  /\ AlreadyComplete
  /\ frames' = "idle" /\ startCount' = None
  /\ excused' = excused \cup native.words
  /\ UNCHANGED <<gate, completion, watchdog, waiting>>

\* Fault: the pump may deliver while the stop frame is forwarded.
stop_waitsUngated ==
  /\ ~AlreadyComplete
  /\ frames' = "forward" /\ waiting' = waiting + 1
  /\ completion' = "unset" /\ watchdog' = "waiting"
  /\ UNCHANGED <<startCount, gate, excused>>

stop_waits ==
  /\ ~AlreadyComplete
  /\ frames' = "forward" /\ waiting' = waiting + 1
  /\ completion' = "unset" /\ watchdog' = "waiting" /\ gate' = FALSE
  /\ UNCHANGED <<startCount, excused>>

vad_stop ==
  /\ frames = "stop" /\ watchdog = "none" /\ pump # "drain"
  /\ speaking' = FALSE /\ covered' = 1..said
  /\ stop_is_complete \/ stop_waits
  /\ UNCHANGED <<streamVars, eventVars, pump, cancelled, batch, starts, said, forwarded,
                 delivered>>

stop_forwarded ==
  /\ frames = "forward" /\ frames' = "drain"
  /\ gate' = TRUE /\ forwarded' = forwarded + 1
  /\ UNCHANGED <<streamVars, eventVars, startCount, completion, pump, watchdog, cancelled,
                 batch, callerVars, waiting, outcomeVars>>

\* _push_pending_frames after audio and after a stop frame.
frames_push ==
  /\ \/ /\ frames = "drain" \/ (frames = "audio" /\ ~Pending("audio"))
        /\ take("frames") /\ frames' = "push"
     \/ frames = "push" /\ push("frames") /\ frames' = "idle"
  /\ UNCHANGED <<pump, watchdog>>

\* stop(): the stream is flushed and what it held is pushed.
end_flush ==
  /\ frames = "end" /\ watchdog = "none"
  /\ Submit("flush", {}) /\ frames' = "flush"
  /\ UNCHANGED <<native, completed, eventVars, endpointVars, pump, watchdog, cancelled,
                 batch, callerVars, orderVars, outcomeVars>>

end_push ==
  /\ \/ frames = "flush" /\ ~Pending("flush") /\ take("frames") /\ frames' = "last"
     \/ frames = "last" /\ push("frames") /\ frames' = "closed"
  /\ UNCHANGED <<pump, watchdog>>

Frame ==
  \/ vad_start \/ vad_stop \/ stop_forwarded \/ frames_push \/ end_flush \/ end_push

---------------------------------------------------------------------------
\* What the transport and the VAD send.
Speak == said < MaxWords /\ run_stt({said + 1})
Silence == run_stt({})
Starts == ~speaking /\ starts < MaxStarts /\ cancel_finalization_watchdog("start")
Stops == speaking /\ cancel_finalization_watchdog("stop")
Ends == cancel_finalization_watchdog("end")

Service == RunJob \/ run_event_pump \/ await_native_finalization \/ Frame
Caller == Speak \/ Silence \/ Starts \/ Stops \/ Ends

SpeechTypeOK ==
  /\ native.number \in 1..(MaxStarts + 1) /\ native.open \in BOOLEAN
  /\ native.line \in 0..MaxWords /\ native.words \subseteq Words
  /\ finalCount \in 0..MaxWords /\ Len(finals) =< finalCount
  /\ startCount \in (0..MaxWords) \cup {None}
  /\ Len(executor) =< 2
  /\ completion \in {"none", "unset", "set"} /\ gate \in BOOLEAN /\ ready \in BOOLEAN
  /\ frames \in {"idle", "audio", "start", "stop", "forward", "drain", "push", "end",
                 "flush", "last", "closed"}
  /\ pump \in {"wait", "gate", "drain", "push"}
  /\ watchdog \in {"none", "waiting", "flushing", "push"}
  /\ \A s, t \in Tasks : batch[s] # {} /\ batch[t] # {} => s = t
  /\ ~gate <=> frames = "forward"
  /\ delivered \cup covered \cup excused \subseteq 1..said

\* The transcript of an endpoint never overtakes the frame that says the
\* caller has stopped: a final that the native stream reports while an endpoint
\* waits is pushed after that endpoint's stop frame.
FinalAfterStop ==
  [][\A t \in Tasks : delivered' # delivered =>
       \A e \in batch[t] : e.after =< forwarded]_speechVars

\* Every word before an endpoint is transcribed, also when the native stream
\* never completes its line, unless the caller goes on, the call is over, or
\* nothing waits for the word: another line's final answered its endpoint, its
\* line's id was marked by an older stream, or a cancelled fallback had taken it.
SpeechTranscribed ==
  \A w \in Words :
    w \in covered ~> (w \in delivered \cup excused \/ speaking \/ frames = "closed")
====
