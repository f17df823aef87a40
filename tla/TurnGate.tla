---- MODULE TurnGate ----
(***************************************************************************)
(* The realtime turn gate (core/realtime_gate.py), the per-session turn    *)
(* state that drives it (TurnLatencyState and LatencyBoundaryProcessor in  *)
(* core/processors.py) and the enrichment worker that yields to it         *)
(* (BackgroundTaskQueue._run_enrichment in core/task_queue.py).            *)
(*                                                                         *)
(* Every method called here is synchronous, so on the event loop each one  *)
(* is one step.  The frames that call them come from Pipecat, the language *)
(* model and the speech synthesiser: llmRun, tool and audio say which of   *)
(* their frames may still arrive.                                          *)
(***************************************************************************)
EXTENDS Naturals, Sequences

CONSTANTS
  Sessions,    \* the voice sessions of the process
  Items,       \* the enrichment jobs enqueued in a run
  Capacity,    \* maxsize of the enrichment queue
  MaxTurns     \* bound: turns a session may open

ASSUME TurnGateAssumption ==
  /\ MaxTurns \in Nat \ {0}
  /\ Capacity \in Nat \ {0}
  /\ "none" \notin Items

VARIABLES
  gate,       \* RealtimeTurnGate._active: the keys <<session, turn id>>
  idle,       \* RealtimeTurnGate._idle: whether the event is set
  turnId, active, speechOpen, identityOpen,
  llmSeen, audioSeen, cancelled, fillerSpoken,  \* TurnLatencyState
  closed,     \* sessions whose teardown has released the gate
  llmRun,     \* a pass of the language model is streaming
  tool,       \* a tool call is in progress
  audio,      \* TTS contexts without a stop frame: "filler", "answer"
  replyTurn,  \* history: the turn the last context frame asked to answer
  queue,      \* _enrichment_queue
  pc,         \* where the enrichment worker is
  item,       \* the job the worker holds
  outcome     \* history: what became of each job

turnVars == <<turnId, active, speechOpen, identityOpen,
              llmSeen, audioSeen, cancelled, fillerSpoken>>
replyVars == <<llmRun, tool, audio, replyTurn>>
workVars == <<queue, item, outcome>>
vars == <<gate, idle, turnVars, closed, replyVars, pc, workVars>>

NoItem == "none"
Contexts == {"filler", "answer"}
WorkerStates == {"get", "wait", "woken", "run", "preempt"}
Outcomes == {"new", "queued", "done", "dropped", "rejected"}

Key(s) == <<s, turnId[s]>>

Init ==
  /\ gate = {} /\ idle = TRUE
  /\ turnId = [s \in Sessions |-> 0]
  /\ active = [s \in Sessions |-> FALSE]
  /\ speechOpen = [s \in Sessions |-> FALSE]
  /\ identityOpen = [s \in Sessions |-> FALSE]
  /\ llmSeen = [s \in Sessions |-> FALSE]
  /\ audioSeen = [s \in Sessions |-> FALSE]
  /\ cancelled = [s \in Sessions |-> FALSE]
  /\ fillerSpoken = [s \in Sessions |-> FALSE]
  /\ closed = [s \in Sessions |-> FALSE]
  /\ llmRun = [s \in Sessions |-> FALSE]
  /\ tool = [s \in Sessions |-> FALSE]
  /\ audio = [s \in Sessions |-> {}]
  /\ replyTurn = [s \in Sessions |-> 0]
  /\ queue = <<>> /\ pc = "get" /\ item = NoItem
  /\ outcome = [i \in Items |-> "new"]

---------------------------------------------------------------------------
\* RealtimeTurnGate.  EndedPc and BegunPc are what end() and begin() do to the
\* worker: setting the event wakes a waiter for good, even if the event is
\* cleared again before it runs; begin() cancels a running child task.

EndedPc(g, p) == IF g = {} /\ p = "wait" THEN "woken" ELSE p
\* Fault: begin() forgets the running child.
BegunPcForgetsChild(p) == p
BegunPc(p) == IF p = "run" THEN "preempt" ELSE p

end(k) ==
  /\ gate' = gate \ {k}
  /\ idle' = (idle \/ gate' = {})
  /\ pc' = EndedPc(gate', pc)

\* end() of the previous turn, if any, and begin() of the new one, in one call.
endThenBegin(old, k) ==
  /\ gate' = (gate \ old) \cup {k}
  /\ idle' = FALSE
  /\ pc' = BegunPc(IF old = {} THEN pc ELSE EndedPc(gate \ old, pc))

gateUnchanged == UNCHANGED <<gate, idle, pc>>

---------------------------------------------------------------------------
\* TurnLatencyState.

\* mark_user_started past its early return; open says whether the speech stays
\* open (it is closed at once when mark_user_stopped had to open the turn).
openSpeech(s, open) ==
  /\ turnId[s] < MaxTurns
  /\ end(Key(s))
  /\ turnId' = [turnId EXCEPT ![s] = @ + 1]
  /\ active' = [active EXCEPT ![s] = FALSE]
  /\ speechOpen' = [speechOpen EXCEPT ![s] = open]
  /\ identityOpen' = [identityOpen EXCEPT ![s] = TRUE]
  /\ UNCHANGED <<llmSeen, audioSeen, cancelled, fillerSpoken>>

\* Fault: the turn is closed without ending its key.
finishKeepsKey(s, cancel) ==
  /\ active' = [active EXCEPT ![s] = FALSE]
  /\ speechOpen' = [speechOpen EXCEPT ![s] = FALSE]
  /\ identityOpen' = [identityOpen EXCEPT ![s] = FALSE]
  /\ cancelled' = [cancelled EXCEPT ![s] = cancel \/ @]
  /\ gateUnchanged
  /\ UNCHANGED <<turnId, llmSeen, audioSeen, fillerSpoken>>

\* finish_tts and finish_turn; only finish_turn marks the turn cancelled.
finish(s, cancel) ==
  /\ end(Key(s))
  /\ active' = [active EXCEPT ![s] = FALSE]
  /\ speechOpen' = [speechOpen EXCEPT ![s] = FALSE]
  /\ identityOpen' = [identityOpen EXCEPT ![s] = FALSE]
  /\ cancelled' = [cancelled EXCEPT ![s] = cancel \/ @]
  /\ UNCHANGED <<turnId, llmSeen, audioSeen, fillerSpoken>>

mark_user_started(s) == ~speechOpen[s] /\ openSpeech(s, TRUE)

mark_user_stopped(s) ==
  \/ /\ ~speechOpen[s] /\ ~active[s]
     /\ openSpeech(s, FALSE)
  \/ /\ speechOpen[s] \/ active[s]
     /\ speechOpen' = [speechOpen EXCEPT ![s] = FALSE]
     /\ gateUnchanged
     /\ UNCHANGED <<turnId, active, identityOpen,
                    llmSeen, audioSeen, cancelled, fillerSpoken>>

\* start_turn returns early while a turn without audio is active; an active turn
\* with audio is finished first, which closes its identity.
start_turn(s) ==
  LET superseded == active[s]
      opensIdentity == superseded \/ ~identityOpen[s]
      turn == turnId[s] + (IF opensIdentity THEN 1 ELSE 0)
  IN \/ active[s] /\ ~audioSeen[s] /\ gateUnchanged /\ UNCHANGED turnVars
     \/ /\ active[s] => audioSeen[s]
        /\ turn <= MaxTurns
        /\ turnId' = [turnId EXCEPT ![s] = turn]
        /\ identityOpen' = [identityOpen EXCEPT ![s] = TRUE]
        /\ speechOpen' = [speechOpen EXCEPT ![s] = @ /\ ~superseded]
        /\ active' = [active EXCEPT ![s] = TRUE]
        /\ llmSeen' = [llmSeen EXCEPT ![s] = FALSE]
        /\ audioSeen' = [audioSeen EXCEPT ![s] = FALSE]
        /\ fillerSpoken' = [fillerSpoken EXCEPT ![s] = FALSE]
        /\ cancelled' = [cancelled EXCEPT ![s] = FALSE]
        /\ endThenBegin(IF superseded THEN {Key(s)} ELSE {}, <<s, turn>>)

record_final_stt_fragment(s) ==
  /\ ~identityOpen[s]
  /\ turnId[s] < MaxTurns
  /\ turnId' = [turnId EXCEPT ![s] = @ + 1]
  /\ identityOpen' = [identityOpen EXCEPT ![s] = TRUE]
  /\ gateUnchanged
  /\ UNCHANGED <<active, speechOpen, llmSeen, audioSeen, cancelled, fillerSpoken>>

finish_response(s) ==
  /\ active' = [active EXCEPT ![s] = FALSE]
  /\ speechOpen' = [speechOpen EXCEPT ![s] = FALSE]
  /\ gateUnchanged
  /\ UNCHANGED <<turnId, identityOpen, llmSeen, audioSeen, cancelled, fillerSpoken>>

---------------------------------------------------------------------------
\* The frames that reach the boundary processors of one session.

VADUserStartedSpeaking(s) ==
  /\ mark_user_started(s)
  /\ UNCHANGED replyVars

UserStoppedSpeaking(s) ==
  /\ mark_user_stopped(s)
  /\ UNCHANGED replyVars

Transcription(s) ==
  /\ record_final_stt_fragment(s)
  /\ UNCHANGED replyVars

\* The context of a user turn reaches the model; audio of an earlier reply may
\* still be playing out.
LLMContext(s) ==
  /\ start_turn(s)
  /\ llmRun' = [llmRun EXCEPT ![s] = TRUE]
  /\ replyTurn' = [replyTurn EXCEPT ![s] = turnId'[s]]
  /\ UNCHANGED <<tool, audio>>

FunctionCallInProgress(s) ==
  /\ llmRun[s]
  /\ tool' = [tool EXCEPT ![s] = TRUE]
  /\ llmSeen' = [llmSeen EXCEPT ![s] = TRUE]
  /\ gateUnchanged
  /\ UNCHANGED <<turnId, active, speechOpen, identityOpen, audioSeen, cancelled,
                 fillerSpoken, llmRun, audio, replyTurn>>

\* ToolFillerProcessor._emit_filler speaks once per turn while a tool runs.
ToolFiller(s) ==
  /\ tool[s] /\ ~fillerSpoken[s]
  /\ fillerSpoken' = [fillerSpoken EXCEPT ![s] = TRUE]
  /\ audio' = [audio EXCEPT ![s] = @ \cup {"filler"}]
  /\ gateUnchanged
  /\ UNCHANGED <<turnId, active, speechOpen, identityOpen, llmSeen, audioSeen,
                 cancelled, llmRun, tool, replyTurn>>

\* The result starts the model's next pass behind the turn boundary.
FunctionCallResult(s) ==
  /\ tool[s]
  /\ tool' = [tool EXCEPT ![s] = FALSE]
  /\ llmRun' = [llmRun EXCEPT ![s] = TRUE]
  /\ gateUnchanged
  /\ UNCHANGED <<turnVars, audio, replyTurn>>

LLMText(s) ==
  /\ llmRun[s]
  /\ llmSeen' = [llmSeen EXCEPT ![s] = TRUE]
  /\ audio' = [audio EXCEPT ![s] = @ \cup {"answer"}]
  /\ gateUnchanged
  /\ UNCHANGED <<turnId, active, speechOpen, identityOpen, audioSeen, cancelled,
                 fillerSpoken, llmRun, tool, replyTurn>>

LLMFullResponseEnd(s) ==
  /\ llmRun[s]
  /\ llmRun' = [llmRun EXCEPT ![s] = FALSE]
  /\ finish_response(s)
  /\ UNCHANGED <<tool, audio, replyTurn>>

TTSAudio(s) ==
  /\ audio[s] # {}
  /\ llmSeen[s] /\ ~audioSeen[s] /\ ~cancelled[s]
  /\ audioSeen' = [audioSeen EXCEPT ![s] = TRUE]
  /\ gateUnchanged
  /\ UNCHANGED <<turnId, active, speechOpen, identityOpen, llmSeen, cancelled,
                 fillerSpoken, replyVars>>

\* Contexts stop in the order they were requested, and the answer's context
\* stays open while the model is still streaming into it.
TTSStopped(s) ==
  \E c \in audio[s] :
    /\ c = "answer" => "filler" \notin audio[s] /\ ~llmRun[s]
    /\ audio' = [audio EXCEPT ![s] = @ \ {c}]
    /\ \/ llmSeen[s] /\ finish(s, FALSE)
       \/ ~llmSeen[s] /\ gateUnchanged /\ UNCHANGED turnVars
    /\ UNCHANGED <<llmRun, tool, replyTurn>>

\* mark_interruption ignores a newly opened speech turn; Pipecat drops the model
\* pass, the tool calls and the queued audio either way.
Interruption(s) ==
  /\ \/ speechOpen[s] /\ gateUnchanged /\ UNCHANGED turnVars
     \/ ~speechOpen[s] /\ finish(s, TRUE)
  /\ llmRun' = [llmRun EXCEPT ![s] = FALSE]
  /\ tool' = [tool EXCEPT ![s] = FALSE]
  /\ audio' = [audio EXCEPT ![s] = {}]
  /\ UNCHANGED replyTurn

\* Fault: teardown skips the gate.
TeardownSkipsGate(s) ==
  /\ closed' = [closed EXCEPT ![s] = TRUE]
  /\ llmRun' = [llmRun EXCEPT ![s] = FALSE]
  /\ tool' = [tool EXCEPT ![s] = FALSE]
  /\ audio' = [audio EXCEPT ![s] = {}]
  /\ gateUnchanged
  /\ UNCHANGED <<turnVars, replyTurn>>

\* The finally block of _run_bot: the pipeline has stopped.
Teardown(s) ==
  /\ closed' = [closed EXCEPT ![s] = TRUE]
  /\ end(Key(s))
  /\ llmRun' = [llmRun EXCEPT ![s] = FALSE]
  /\ tool' = [tool EXCEPT ![s] = FALSE]
  /\ audio' = [audio EXCEPT ![s] = {}]
  /\ UNCHANGED <<turnVars, replyTurn>>

Frame(s) ==
  \/ VADUserStartedSpeaking(s) \/ UserStoppedSpeaking(s) \/ Transcription(s)
  \/ LLMContext(s) \/ FunctionCallInProgress(s) \/ ToolFiller(s)
  \/ FunctionCallResult(s) \/ LLMText(s) \/ LLMFullResponseEnd(s)
  \/ TTSAudio(s) \/ TTSStopped(s) \/ Interruption(s)

SessionStep ==
  /\ \E s \in Sessions : /\ ~closed[s]
                         /\ \/ Frame(s) /\ UNCHANGED closed
                            \/ Teardown(s)
  /\ UNCHANGED workVars

---------------------------------------------------------------------------
\* The enrichment lane.

enqueue_enrichment(i) ==
  /\ outcome[i] = "new"
  /\ \/ /\ Len(queue) < Capacity
        /\ queue' = Append(queue, i)
        /\ outcome' = [outcome EXCEPT ![i] = "queued"]
     \/ /\ Len(queue) >= Capacity
        /\ outcome' = [outcome EXCEPT ![i] = "rejected"]
        /\ UNCHANGED queue
  /\ UNCHANGED <<gate, idle, turnVars, closed, replyVars, pc, item>>

\* wait_until_idle returns at once when the event is set.
awaitIdle == pc' = IF idle THEN "woken" ELSE "wait"

TakeItem ==
  /\ pc = "get" /\ queue # <<>>
  /\ item' = Head(queue)
  /\ queue' = Tail(queue)
  /\ awaitIdle
  /\ UNCHANGED <<gate, idle, turnVars, closed, replyVars, outcome>>

\* register_idle_task: a refused child is cancelled before its first step.
RegisterChild ==
  /\ pc = "woken"
  /\ \/ gate = {} /\ pc' = "run"
     \/ gate # {} /\ awaitIdle
  /\ UNCHANGED <<gate, idle, turnVars, closed, replyVars, workVars>>

\* The child ends by itself, or with an exception that drops the job.
ChildEnds ==
  /\ pc = "run"
  /\ \E result \in {"done", "dropped"} :
       outcome' = [outcome EXCEPT ![item] = result]
  /\ pc' = "get" /\ item' = NoItem
  /\ UNCHANGED <<gate, idle, turnVars, closed, replyVars, queue>>

\* A preempted child has been cancelled: the worker keeps the job and waits again.
ChildCancelled ==
  /\ pc = "preempt"
  /\ awaitIdle
  /\ UNCHANGED <<gate, idle, turnVars, closed, replyVars, workVars>>

WorkerStep == TakeItem \/ RegisterChild \/ ChildEnds \/ ChildCancelled

Next ==
  \/ SessionStep
  \/ \E i \in Items : enqueue_enrichment(i)
  \/ WorkerStep

\* The event loop runs every ready task; nobody is bound to talk or to hang up.
Spec == Init /\ [][Next]_vars /\ WF_vars(WorkerStep)

---------------------------------------------------------------------------
TypeOK ==
  /\ gate \subseteq Sessions \X (0..MaxTurns) /\ idle \in BOOLEAN
  /\ turnId \in [Sessions -> 0..MaxTurns]
  /\ {active, speechOpen, identityOpen, llmSeen, audioSeen, cancelled,
      fillerSpoken, closed, llmRun, tool} \subseteq [Sessions -> BOOLEAN]
  /\ audio \in [Sessions -> SUBSET Contexts]
  /\ replyTurn \in [Sessions -> 0..MaxTurns]
  /\ queue \in Seq(Items)
  /\ pc \in WorkerStates
  /\ item \in Items \cup {NoItem}
  /\ outcome \in [Items -> Outcomes]

\* Only the current turn of a session that is still open can hold the gate: a
\* key of an older turn, of a turn that was finished, or of a session that was
\* torn down has nobody left to end it and would starve enrichment for good.
NoLeakedKey ==
  \A k \in gate : /\ k = Key(k[1])
                  /\ identityOpen[k[1]]
                  /\ ~closed[k[1]]

\* The idle event says exactly whether no turn holds the gate.
IdleEventAgrees == idle = (gate = {})

\* An enrichment job that has not been told to stop never runs beside a live turn,
\* whatever begin and end calls fell between the wait and the registration.
EnrichmentYields == pc = "run" => gate = {}

\* A preempted or waiting job stays with the worker: the worker holds a job exactly
\* while it is not waiting for one, and that job is still owed a result.
JobKept ==
  /\ (pc = "get") = (item = NoItem)
  /\ item # NoItem => outcome[item] = "queued"

\* Once the last call is over, every accepted job gets its result.
EnrichmentDrains ==
  <>[](\A s \in Sessions : closed[s])
    => \A i \in Items : [](outcome[i] = "queued" => <>(outcome[i] # "queued"))

Responding(s) == llmRun[s] \/ tool[s] \/ "answer" \in audio[s]

\* finish_tts: "Release deferred work only after response audio generation ends."
\* While the reply to the current turn is still being produced, the turn holds
\* the gate.
GateCoversReply ==
  \A s \in Sessions :
    Responding(s) /\ replyTurn[s] = turnId[s] => Key(s) \in gate

Priority == INSTANCE VoicePriority
  WITH busy <- {k[1] : k \in gate}, working <- (pc = "run")

\* The gate keeps the abstract promise.
GateIsVoicePriority == Priority!Spec
====
