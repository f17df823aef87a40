---- MODULE ToolRecords ----
(***************************************************************************)
(* The tool calls of one call and what is recorded of them: the filler     *)
(* that is spoken while they run (ToolFillerProcessor, core/processors.py),*)
(* their operations and failures (save_call_operation, save_call_event and *)
(* CallEventRecorder, services/calls.py), the tasks of the persistence     *)
(* lane that save them, which are refused when their journal cannot be     *)
(* written (core/task_queue.py), and the end of the session, which waits   *)
(* for both lane and recorder before the call is terminal (main.py).       *)
(*                                                                         *)
(* The lane is taken for what module PersistenceQueue shows of it: it      *)
(* attempts a task until it is answered, in any order.  A filler that is   *)
(* spoken at once is one whose delay passes at once.  Every entry of the   *)
(* transcript has an enrichment job, which stands for it.                  *)
(***************************************************************************)
EXTENDS TurnGate, FiniteSets

\* What reports a failure, other than a tool call.
Reporters == {"queue", "pipeline"}

CONSTANTS
  Caller,        \* the session of the call
  ToolCalls,     \* the tool calls of its model
  MaxSaveFaults  \* bound: journals that cannot be written, commits answered by
                 \* an error, fallbacks that fail

ASSUME ToolAssumption ==
  /\ Caller \in Sessions /\ MaxSaveFaults \in Nat
  /\ ToolCalls \cap (Items \cup Reporters) = {} /\ Items \cap Reporters = {}

VARIABLES
  called,       \* what became of each tool call
  activeCalls,  \* _active_calls
  fillerTask,   \* whether _filler_task sleeps
  said,         \* the entries of the transcript so far
  saves,        \* tasks of the call that the lane has accepted
  fallbacks,    \* _fallback_tasks: events that are saved without the lane
  timeline,     \* the rows of the call, by their sequence
  counts,       \* tool_call_count, error_count and warning_count
  teardown,     \* where the session's end is
  gathered,     \* the fallbacks that it waits for
  ended,        \* who made the call terminal
  unsaved,      \* history: saves nobody owes any more and no row holds
  saveFaults    \* counter for the bound

toolVars == <<called, activeCalls, fillerTask, said, saves, fallbacks, timeline,
              counts, teardown, gathered, ended, unsaved, saveFaults>>

Answers == {"completed", "failed", "unavailable"}
Closed == Answers \cup {"cancelled"}

\* What a task saves; an event is known by its fingerprint, of code, turn and
\* request, the rest by the id of their journal.
Save(kind, of, turn) == [kind |-> kind, of |-> of, turn |-> turn]
Events == {"error", "warning"}

ToolInit ==
  /\ called = [c \in ToolCalls |-> "new"]
  /\ activeCalls = {} /\ fillerTask = FALSE /\ said = {}
  /\ saves = {} /\ fallbacks = {} /\ timeline = <<>>
  /\ counts = [operation |-> 0, error |-> 0, warning |-> 0]
  /\ teardown = "live" /\ gathered = {} /\ ended = "no"
  /\ unsaved = {} /\ saveFaults = 0

---------------------------------------------------------------------------
\* _write_journal, for each of some saves: those that have no journal.
notJournaled(new) ==
  {refused \in SUBSET new : saveFaults + Cardinality(refused) =< MaxSaveFaults}

\* enqueue: what has no journal is refused.  Only CallEventRecorder.record minds, and
\* saves the event in a task of its own.  The others that the lane owes stay.
enqueueSaves(others, new) ==
  \E refused \in notJournaled(new) :
    /\ saveFaults' = saveFaults + Cardinality(refused)
    /\ saves' = others \cup (new \ refused)
    /\ fallbacks' = fallbacks \cup {s \in refused : s.kind \in Events}
    /\ unsaved' = unsaved \cup {s \in refused : s.kind \notin Events}

recordUnchanged == UNCHANGED <<timeline, counts, teardown, gathered, ended>>

---------------------------------------------------------------------------
\* ToolFillerProcessor.

\* FunctionCallInProgressFrame.
tool_in_progress(c) ==
  /\ called[c] = "new" /\ called' = [called EXCEPT ![c] = "running"]
  /\ FunctionCallInProgress(Caller)
  /\ activeCalls' = activeCalls \cup {c}
  /\ fillerTask' = (fillerTask \/ ~fillerSpoken[Caller])
  /\ UNCHANGED <<said, saves, fallbacks, unsaved, saveFaults>> /\ recordUnchanged

\* _delayed_filler and _emit_filler, with the filler's entry in the transcript.
filler_due ==
  /\ fillerTask /\ fillerTask' = FALSE
  /\ IF activeCalls # {} /\ ~fillerSpoken[Caller]
     THEN /\ ToolFiller(Caller)
          /\ \E i \in Items \ said :
               said' = said \cup {i} /\ enqueueSaves(saves, {Save("transcript", i, turnId[Caller])})
     ELSE UNCHANGED <<vars, said, saves, fallbacks, unsaved, saveFaults>>
  /\ UNCHANGED <<called, activeCalls>> /\ recordUnchanged

\* What is saved of a call that is over: the operation, and its failure.
Due(status) ==
  CASE status = "failed" -> {"operation", "error"}
    [] status = "unavailable" -> {"operation", "warning"}
    [] status \in {"completed", "cancelled"} -> {"operation"}
    [] OTHER -> {}
Outcome(c, status) == {Save(kind, c, turnId[Caller]) : kind \in Due(status)}

tool_over(c, status) ==
  /\ called' = [called EXCEPT ![c] = status]
  /\ activeCalls' = activeCalls \ {c}
  /\ fillerTask' = (fillerTask /\ activeCalls' # {})
  /\ enqueueSaves(saves, Outcome(c, status))
  /\ UNCHANGED said /\ recordUnchanged

\* FunctionCallResultFrame; the last result lets the model answer.
tool_answers(c, status) ==
  /\ called[c] = "running" /\ tool_over(c, status)
  /\ IF \E d \in ToolCalls \ {c} : called[d] = "running" THEN UNCHANGED vars
     ELSE FunctionCallResult(Caller)

\* FunctionCallCancelFrame, behind the interruption that cancelled the call.
tool_cancelled(c) ==
  /\ called[c] = "interrupted" /\ ~closed[Caller]
  /\ tool_over(c, "cancelled") /\ UNCHANGED vars

\* LLMTextFrame and InterruptionFrame.
FillerDropped ==
  /\ activeCalls' = {} /\ fillerTask' = FALSE
  /\ UNCHANGED <<said, saves, fallbacks, unsaved, saveFaults>> /\ recordUnchanged

Unanswered(becomes) ==
  called' = [c \in ToolCalls |-> IF called[c] = "running" THEN becomes ELSE called[c]]

model_text == LLMText(Caller) /\ FillerDropped /\ UNCHANGED called
tools_interrupted == Interruption(Caller) /\ FillerDropped /\ Unanswered("interrupted")

---------------------------------------------------------------------------
\* The caller speaks; the rest of the pipeline.
transcript_said ==
  /\ ~closed[Caller]
  /\ \E i \in Items \ said :
       said' = said \cup {i} /\ enqueueSaves(saves, {Save("transcript", i, turnId[Caller])})
  /\ UNCHANGED <<vars, called, activeCalls, fillerTask>> /\ recordUnchanged

\* Another component reports that it has recovered, or failed, as often as it does.
diagnosed ==
  /\ ~closed[Caller]
  /\ enqueueSaves(saves, {Save("warning", "pipeline", turnId[Caller])})
  /\ UNCHANGED <<vars, called, activeCalls, fillerTask, said>> /\ recordUnchanged

OtherFrame ==
  /\ \/ VADUserStartedSpeaking(Caller) \/ UserStoppedSpeaking(Caller)
     \/ Transcription(Caller) \/ LLMContext(Caller) \/ LLMFullResponseEnd(Caller)
     \/ TTSAudio(Caller) \/ TTSStopped(Caller)
  /\ UNCHANGED toolVars

---------------------------------------------------------------------------
\* The writers of services/calls.py.
Rows(kind) == {i \in DOMAIN timeline : timeline[i].kind = kind}
InTimeline(s) == \E i \in DOMAIN timeline : timeline[i] = s
Counted(kind) == IF kind \in DOMAIN counts THEN [counts EXCEPT ![kind] = @ + 1] ELSE counts

\* save_transcript_entry, save_call_operation and save_call_event: a terminal call
\* declines; what is there already is not saved again.
write(s) ==
  IF ended # "no" \/ InTimeline(s) THEN UNCHANGED <<timeline, counts>>
  ELSE timeline' = Append(timeline, s) /\ counts' = Counted(s.kind)

record_queue_rejection == {Save("error", "queue", turnId[Caller])}

\* A task of the lane.  A commit answered by an error is attempted again.  A new
\* entry has its enrichment enqueued; the lane that is full for it calls the handler
\* registered for the call.
save_runs(s) ==
  /\ s \in saves /\ write(s)
  /\ \/ /\ saveFaults < MaxSaveFaults /\ saveFaults' = saveFaults + 1
        /\ UNCHANGED <<vars, saves, fallbacks, unsaved>>
     \/ /\ IF s.kind = "transcript" /\ timeline' # timeline
           THEN enqueue_enrichment(s.of) ELSE UNCHANGED vars
        /\ enqueueSaves(saves \ {s}, IF outcome' # outcome /\ outcome'[s.of] = "rejected"
                                     THEN record_queue_rejection ELSE {})
  /\ UNCHANGED <<called, activeCalls, fillerTask, said, teardown, gathered, ended>>

\* A fallback runs once; nobody looks at its exception.
fallback_runs(s) ==
  /\ s \in fallbacks /\ fallbacks' = fallbacks \ {s}
  /\ \/ write(s) /\ UNCHANGED <<unsaved, saveFaults>>
     \/ /\ saveFaults < MaxSaveFaults /\ saveFaults' = saveFaults + 1
        /\ unsaved' = unsaved \cup {s}
        /\ UNCHANGED <<timeline, counts>>
  /\ UNCHANGED <<vars, called, activeCalls, fillerTask, said, saves, teardown, gathered,
                 ended>>

---------------------------------------------------------------------------
\* The end of the session.

pipeline_stops ==
  /\ Teardown(Caller) /\ Unanswered("gone")
  /\ activeCalls' = {} /\ fillerTask' = FALSE
  /\ teardown' = "waiting"
  /\ UNCHANGED <<said, saves, fallbacks, timeline, counts, gathered, ended, unsaved,
                 saveFaults>>

TeardownStep(from, to) ==
  /\ teardown = from /\ teardown' = to
  /\ UNCHANGED <<vars, called, activeCalls, fillerTask, said, saves, fallbacks, timeline,
                 counts, unsaved, saveFaults>>

\* wait_for_key, until the lane is empty or the wait has timed out; then drain looks
\* at what the recorder still saves.
wait_for_key ==
  TeardownStep("waiting", "draining") /\ gathered' = fallbacks /\ UNCHANGED ended

\* Fault: the recorder is not drained.
drainForgotten ==
  TeardownStep("draining", "drained") /\ gathered' = {} /\ UNCHANGED ended

\* CallEventRecorder.drain.
drain ==
  /\ gathered \cap fallbacks = {}
  /\ TeardownStep("draining", "drained") /\ gathered' = {} /\ UNCHANGED ended

\* The lane is waited for however long it takes; then the call is finalized.
finalize_caller ==
  /\ saves = {} /\ TeardownStep("drained", "over")
  /\ ended' = IF ended = "no" THEN "session" ELSE ended
  /\ UNCHANGED gathered

\* The watchdog, when the heartbeat has stopped.
caller_abandoned ==
  /\ ended = "no" /\ ended' = "watchdog"
  /\ UNCHANGED <<vars, called, activeCalls, fillerTask, said, saves, fallbacks, timeline,
                 counts, teardown, gathered, unsaved, saveFaults>>

---------------------------------------------------------------------------
ToolFrame ==
  \/ \E c \in ToolCalls : tool_in_progress(c) \/ \E status \in Answers : tool_answers(c, status)
  \/ filler_due \/ model_text \/ tools_interrupted \/ OtherFrame

ToolsNext ==
  \/ /\ ~closed[Caller]
     /\ \/ ToolFrame /\ UNCHANGED closed
        \/ pipeline_stops
     /\ UNCHANGED workVars
  \/ \E c \in ToolCalls : tool_cancelled(c)
  \/ transcript_said \/ diagnosed
  \/ \E s \in saves : save_runs(s)
  \/ \E s \in fallbacks : fallback_runs(s)
  \/ wait_for_key \/ drain \/ finalize_caller \/ caller_abandoned
  \/ WorkerStep /\ UNCHANGED toolVars

ToolsInit == Init /\ ToolInit
ToolsSpec == ToolsInit /\ [][ToolsNext]_<<vars, toolVars>>

---------------------------------------------------------------------------
Saves ==
  [kind : {"operation"}, of : ToolCalls, turn : 0..MaxTurns] \cup
  [kind : Events, of : ToolCalls \cup Reporters, turn : 0..MaxTurns] \cup
  [kind : {"transcript"}, of : Items, turn : 0..MaxTurns]

ToolTypeOK ==
  /\ called \in [ToolCalls -> Closed \cup {"new", "running", "interrupted", "gone"}]
  /\ activeCalls \subseteq ToolCalls /\ fillerTask \in BOOLEAN /\ said \subseteq Items
  /\ saves \subseteq Saves /\ fallbacks \subseteq Saves /\ unsaved \subseteq Saves
  /\ timeline \in Seq(Saves)
  /\ counts \in [{"operation", "error", "warning"} -> Nat]
  /\ teardown \in {"live", "waiting", "draining", "drained", "over"}
  /\ gathered \subseteq Saves
  /\ ended \in {"no", "session", "watchdog"}
  /\ saveFaults \in 0..MaxSaveFaults

\* What a call records of its tools adds up, and is complete when its session ends
\* it.  However often a save is attempted, and by lane and fallback, a tool call has
\* one operation and at most one failure, of the same turn, a failure that is reported
\* again in its turn has one row, and the call counts each row once.  When the session
\* makes the call terminal, every tool call that was over for the pipeline has its
\* operation, and every one that failed its failure, but for operations whose journal
\* could not be written and failures whose fallback failed as well.
OneRowEach ==
  /\ \A i, j \in DOMAIN timeline : timeline[i] = timeline[j] => i = j
  /\ \A i, j \in DOMAIN timeline :
       timeline[i].of = timeline[j].of /\ timeline[i].of \in ToolCalls =>
         /\ timeline[i].turn = timeline[j].turn
         /\ (timeline[i].kind \in Events) = (timeline[j].kind \in Events) => i = j

CountsAddUp == \A kind \in DOMAIN counts : counts[kind] = Cardinality(Rows(kind))

OnRecord(kind, c) ==
  \E t \in 0..MaxTurns : InTimeline(Save(kind, c, t)) \/ Save(kind, c, t) \in unsaved

CompleteAtEnd ==
  ended = "session" => \A c \in ToolCalls : \A kind \in Due(called[c]) : OnRecord(kind, c)

ToolsOnRecord == OneRowEach /\ CountsAddUp /\ CompleteAtEnd
====
