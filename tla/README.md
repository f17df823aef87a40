# Verification of the Pipecat voice system

TLA+ models of the voice backend and of the page that uses it, checked with TLC on small
instances and, where it says so below, proved with TLAPS for every value of the constants.
Paths are relative to the repository (`core/`, `services/`, `providers/`, `tools/`, `api/`
and `main.py` are in `src/backend/`); modules and configurations are in this directory.

The system is a Python process on an asyncio event loop (`main.py`) that runs one Pipecat
pipeline per voice call, next to two worker containers (knowledge, call maintenance), a
PostgreSQL database and an object store that they share, and a web page. What is hard in it
is not its data but its order: many coroutines share state between awaits, a few native
threads report to them, records of a call travel through a journaled background queue that
must survive crashes, requests race deadlines and interruptions, and several parties
(session, client, watchdog, recovery, purge, administrators) act on the same rows.

## 1. Inventory

### Components that are modelled

**Realtime gate and turn state** (`core/realtime_gate.py`, `core/processors.py`). State:
the set of active keys `(session, turn id)`, the idle event, the preemptible child tasks;
per session the turn id and flags of `TurnLatencyState`. Driven by the frames of Pipecat,
the model and the synthesiser, it pauses the enrichment lane. Hard: barge-in, a typed turn
over a reply that is still playing, tool calls with spoken fillers, hang-up at any point.
Correct when no key of a dead turn stays, background work never runs undisturbed beside a
live turn, and what is saved of the turns (`services/calls.py`, `api/telemetry.py`, and
the page's own timing) adds up however late or often it is saved.

**Enrichment lane** (`core/task_queue.py`, `_run_enrichment`). A bounded queue, one worker
and its child task. Hard: the gate can be taken between the wait and the registration; a
preempted child and a cancelled worker look alike. Correct when a preempted job stays with
its worker and is drained once the gate is free.

**Persistence lane** (`core/task_queue.py`). The spool directory of fsynced journal files,
a bounded queue, overflow tasks, workers, a lock and a count of outstanding tasks per call.
It runs the writers of `services/calls.py`, which deduplicate by persistence id and decline
a terminal call. Hard: crashes between commit and unlink, commits that are answered by an
error, replay beside running tasks, spilled tasks, shutdown in an outage. Correct when an
accepted record is never lost, never written twice, and never declined because the call was
finalized too early.

**Call session** (`main.py`, `_run_bot` and `run_bot`) and the **call lifecycle
transactions and watchdog** (`services/calls.py`, `services/call_maintenance.py`). The
session's place and flags, its heartbeat, the call's row. Hard: overlapping ready messages,
a disconnect that races a reconnect, outages in every transaction, a teardown that takes
longer than the watchdog's grace. Correct when a call starts once, moves forward only, and
ends with the first verdict reached.

**Call recording** (`services/recordings.py`, `core/storage.py`). A session's writer task
behind a bounded queue of audio; the spool file, the encoded temporary, the stored object
and the recording's row; finishing by the session or, after a crash, by a recovery. Hard:
a dropped chunk or a failed write, a crash between two steps of a finisher, two finishers of
one recording, a teardown that waits for the writer. Correct when a truncated spool is never
called intact, a playable recording has its object, and every recording settles.

**Retention and purge** (`services/call_maintenance.py`, `services/calls.py`,
`api/calls.py`). Deletion marks, the purge's claim and what it read. Hard: a deletion, a
restore or a purge between two steps of a finisher; a crash after a claim. Correct when
deletion wins over every finisher, a restored call has what it had, and a purge leaves no
audio.

**Knowledge control plane** (`core/knowledge_worker.py`, `services/knowledge/`,
`api/knowledge.py`). Jobs with attempts and claims; the units a crawl derives from pages,
their reviews and conflicts; releases. Hard: a job recovered as stale while its first worker
goes on; an outage that also keeps a worker from recording how its job ended; a crawl that
writes a unit it read before a review; two publications at once.
Correct when a job's outcome is final, what a release serves was approved, exactly one
release is live, and every job ends.

**Issue workflow** (`tools/raise_issue.py`). The complaint draft of a call and the tool
calls of a response, which run at once. Hard: a time-out or an interruption after the
insert's commit; a second confirmation, an edit or a new draft while one is stored. Correct
when a draft is stored once and what is called submitted was stored.

**Live memory retrieval, context and memory** (`core/processors.py`, `core/context_summary.py`,
`services/memory.py`, `api/memories.py`). A retrieval task per turn that the next turn
supersedes; the bounded messages with a draft's message, a turn's memory and background
summaries; facts and windows remembered over calls. Hard: an answer after the next turn began; a
mutation while a summary is generated; transcripts that commit out of order, enrichment that is
preempted, repeated or lost, while its call is deleted. Correct when a turn gets its own memory
or none, a summary replaces what it is a summary of, the last statement stands unless its save
was overtaken, and nothing remembered outlives its call.

**Model streams and their deadlines** (`providers/llm/`). Groq's service tries again, drops
tools and speaks a recovery; Google's races two attempts. Hard: a deadline, a failure or an
interruption between any two awaits. Correct when every request ends, with its tools given
back, and no attempt goes on without its request.

**Speech recognition** (`providers/local/stt/moonshine_stt.py`). Frames task, event pump,
endpoint watchdog and one native thread. Hard: a final that overtakes the frame of its
endpoint; a fallback flush that races the next start. Correct when transcripts follow their
endpoint and no word is lost.

**Speech synthesis** (`providers/tts/kokoro_*.py`, `LeadingSilenceTrimmerProcessor`) and
**speech text** (`AssistantOutputGuardProcessor`, `SpeechNormalizationProcessor`,
`CallTimelineProcessor`). Phrases, shared workers, trimmed silence; markup held back,
sentences, the record of a reply. Hard: an interruption whose phrase is still being
synthesized, text and end of a reply that reach the record in any order. Correct when what is
heard and what is recorded is what was said, without tool markup.

**Query embedding** (`services/knowledge/embedding.py`). Cache, shared tasks, circuit
breaker. Correct when an open circuit closes again after an outage.

**Voice admission and web client** (`core/admission.py`, `main.py`,
`src/frontend/src/App.jsx`, `utils/`). Slots; the page's token, clients, calls, teardowns
and poll. Hard: teardowns that go on while the page is used again, answers of cancelled
runs. Correct when no call goes on that the page cannot end, and its end is shown.

How they interact: a turn's frames call the gate synchronously; the gate wakes the
enrichment worker and cancels its child. Transcripts become turns; a turn waits for its
memory, makes a request, and the response's tools run beside it until the caller speaks
again. Transcript, turn and operation writers are enqueued into the persistence lane, whose
workers commit through `services/calls.py`, and a committed transcript is enqueued for
enrichment. The session's teardown finalizes the recording, releases the gate, marks the call
as ending, waits for the lane to have decided the call's tasks, and finalizes it; heartbeat,
watchdog and rescue act on the same row. The maintenance tasks recover recordings and purge
deleted calls, with their memories. Retrievals read the live release the administrators
publish.

### Components that are not, or partly, modelled

| Component | What is left out, and why |
|---|---|
| Knowledge ingestion and retrieval | fetching, parsing, chunking and ranking: transformations of data without concurrency of their own; what a crawl does to the units is modelled |
| Model streams | the OpenAI and local services use the same wrappers without the retries |
| Speech recognition, synthesis | Deepgram, Whisper and Piper are adapters of their libraries; loading a model is one blocking call |
| Speech text | the rewriting of digits, dates and symbols is the data itself |
| Start-up, readiness, shutdown of the server | start-up failures of a call are in `CallSession`, start and stop of the queue in `PersistenceQueue`; probes and warm-up are I/O |
| HTTP interface | authentication and read requests are one transaction each; those that change something are actions of what they change |
| Web client | rendering, history and knowledge pages, which only read |
| Schema and migrations | declarations; the constraints the code relies on appear as guards |

`PROJECT.json` lists the components with their sources, and 40 hazards of the code at the
lines where they bite, with the properties that cover them. A note says which cases a property
excepts because the code really lets them happen. Section 7 names the hazards known and
covered by no property.

## 2. Plan

All modules of the plan are written, in this order:

1. `VoicePriority`, `TurnGate` and, for what is saved of the turns and of their tool calls,
   `TurnRecords` and `ToolRecords`
2. `DurableLedger`, `PersistenceQueue`
3. `CallLifecycle`, `CallSession`
4. `RecordingSpool`, `CallRetention`, `CallArchive`, composed in `CallRecordings`
5. `KnowledgeUnits`, `KnowledgeJobs`, `KnowledgeCorpus`, `KnowledgeReleases`, composed in
   `KnowledgeControl`
6. `SpeechFinalization`, `MemoryRetrieval`, `ModelStream`, `HedgedStream`,
   `IssueWorkflow`, `QueryEmbedding`, composed in `CallerTurns`
7. `ReplyStream`, `ContextWindow`, `SpeechSynthesis`, `CallerMemory`, `VoicePage`,
   composed in `Conversations`

with proofs in `TurnGateProofs`, `RecordsProofs`, `PersistenceQueueProofs`,
`CallSessionProofs`, `CallRecordingsProofs`, `KnowledgeControlProofs`, `CallerTurnsProofs`
and `ConversationsProofs`.

Every safety property of a run but one is proved (section 6, "Only model-checked"); left for
later are readings of the components' remaining invariants as theorems. Products of the
compositions are not planned: their state space is out of reach. Instead each module carries the
interface of its neighbour, see "Assumptions between modules".

## 3. The models

A step is what the event loop runs between two awaits, or one database transaction together
with what its coroutine does until its next await: asyncio is cooperative, and a
transaction that is one step locks the row it acts on. Where the code reads without a lock
and writes later (a crawl's flush, the recovery of stale jobs, a failure's record), the read
and the write are two steps. Logging, timing numbers, payloads and text are left out.
`PROJECT.json` maps each definition to the lines it translates; definitions whose comment
begins with "Fault:" are alternatives used to test the properties and are in no behaviour of
the specifications.

**Compositions and `Scopes`.** A composed module runs its components together, with the
steps they share as one. Its constant `Scopes` is a set of records, each of which bounds
what may take part in a behaviour (how many words, turns, calls, crashes); the variable
`scope` is chosen at the start and never changes. A run is so the union of several small
instances, each for one kind of overlap, of one specification. The theorems hold for any
`Scopes`, hence for everything at once.

**History variables.** Some overlaps really break what a property says, and the code cannot
tell them from others. A variable marked "history" records that one happened (`overlapped`,
`leak`, `stranded`, `taken`, `raced`, `unsure`, `overtaken`, `strays`, `rewritten`,
`unsaved`, `excused`, `draftGone`), no guard reads it, and the property names it as its exception.
The exception is part of the statement: section 4 says for each run which ones there are.

### `VoicePriority`, `TurnGate`, `TurnRecords`, `ToolRecords`

| TLA+ | code |
|---|---|
| `gate`, `idle` | `RealtimeTurnGate._active`, `_idle` |
| `turnId`, `active`, `speechOpen`, `identityOpen`, `llmSeen`, `audioSeen`, `cancelled`, `fillerSpoken` | the fields of `TurnLatencyState` |
| `llmRun`, `tool`, `audio` | which frames of the model, a tool call and the synthesiser may still arrive (external to `src/`) |
| `queue`, `pc`, `item`, `outcome` | the enrichment queue, the worker's place and job, a history of results |
| `mark_user_started` ... `finish_response` | the methods of `TurnLatencyState` of the same names |
| `VADUserStartedSpeaking` ... `Interruption` | the branches of the boundary processors, one action per frame |
| `Teardown` | the release of the gate in the `finally` of `_run_bot` |
| `enqueue_enrichment`, `TakeItem`, `RegisterChild`, `ChildEnds`, `ChildCancelled` | `enqueue_enrichment`, `_run_enrichment` |
| `enqueue`, `first_audio`, `interrupted` ... | what the boundary processors save of a turn (`TurnRecords`) |
| `timing`, `pending`, `posts`, `page_*`, `commitClientLatency` | the page's own timing of a turn and its posts (`App.jsx`, `sessionTelemetry.js`) |
| `lane`, `rows`, `save_call_turn`, `record_voice_latency`, `finalize_call` | the saves of a call's turns and the summary taken of them |
| `called`, `activeCalls`, `fillerTask`, `tool_in_progress`, `filler_due`, `tool_over` | the tool calls as `ToolFillerProcessor` sees them, with its spoken filler (`ToolRecords`) |
| `saves`, `enqueueSaves`, `save_runs` | the lane's tasks `save_call_operation`, `save_call_event` and `save_transcript_entry`, and the journals that cannot be written |
| `fallbacks`, `gathered`, `drain`, `record_queue_rejection` | `CallEventRecorder` with the tasks it saves events in when the lane refuses them |
| `timeline`, `counts`, `unsaved` | the rows and counts of the call; a history of what nobody saves any more |
| `teardown`, `ended`, `wait_for_key`, `finalize_caller`, `caller_abandoned` | the end of `_run_bot`, the finalization, the watchdog |

`pc = "woken"` separates the wait from the registration: a waiter that was woken stays
woken although the event may be cleared again before it runs, as with `asyncio.Event`.
`TurnRecords` follows calls without tools, whose answers are all direct; the server's
messages reach the page at once and in order, its posts come late or never; the stages
before the first audio are shown as one, and a latency is whether there is one. `ToolRecords`
follows the tool calls of one session. A tool call that an interruption cancelled reports its
end in a later turn; the lane attempts its tasks in any order, as `PersistenceQueue` does; an
entry of the transcript stands for its enrichment job, and an enrichment lane that is full for
it has the rejection recorded as an event of the call.

`VoicePriority` is what the gate promises without turns: background work starts only while
no session is busy, and a session that becomes busy stops it in the same step. `TurnGate`
implements it with `busy` as the sessions that have a key and `working` as `pc = "run"`.

### `DurableLedger`, `PersistenceQueue`

| TLA+ | code |
|---|---|
| `journal`, `active` | the spool directory, `_journal_active` |
| `queue`, `overflow` | `_queue`, the items of `_overflow_tasks` |
| `at`, `job`, `line` | each worker's place and item; `_key_locks`, owner first |
| `pending`, `drained` | `_persistence_pending`, `_persistence_drained` |
| `db`, `status`, `ledger` | the database, a call's status, its committed records in order |
| `session`, `before` | the teardown of each call; what was accepted before its drain |
| `enqueue`, `PutOverflow`, `ReplayJournals` | `enqueue` with journal and count, `_put_overflow`, one scan of `_replay_journals` |
| `Get`, `Commit`, `Decline`, `RunPlain`, `Fail`, `Retry`, `Finish` | `_worker` and the writers of `services/calls.py` |
| `wait_for_key`, `finalize_call`, `abandon` | teardown and watchdog |
| `Crash`, `start`, `stop`, `Join`, `Stopped` | the process |

`Commit` may be answered by an error after it has committed: the next attempt then finds
the record. `ReplayJournals` takes files in any order, because their names are random. A
journal that cannot be written refuses the task. `stop` waits for overflow and queue while
the workers go on; `Stopped` cancels them and forgets what was enqueued meanwhile, which
the journal keeps. `DurableLedger` is what callers rely on: a record is accepted once,
written at most once while its call may be written (an overwriting summary may be written
again), and given up only after the end of its call.

### `CallLifecycle`, `CallSession`

| TLA+ | code |
|---|---|
| `status`, `reason`, `age` | the call's row; `age` is the time since `updated_at` in ticks of 10 s |
| `pc`, `raised` | where `_run_bot` and `run_bot` are, whether with an exception |
| `verdict`, `why`, `activated`, `startupSent`, `graceExpired`, `userEnd` | the locals of `_run_bot` |
| `beat` | `call_heartbeat_task`: none, asleep, due, stopped |
| `here`, `grace`, `stopping` | client connection, grace task, cancellation of the worker |
| `owed`, `declined` | the persistence lane as this module sees it |
| `ProviderFails`, `AssemblyFails`, `snapshot_call_configuration` | start-up |
| `on_client_connected` ... `ClientReadyAnswered` | the handlers of the client |
| `on_pipeline_error`, `RunReturns`, `RunCancelled`, `RunRaises` | the run and how it ends |
| `mark_call_ending`, `wait_for_key`, `Finalize`, `TeardownCancelled` | the `finally` of `_run_bot` |
| `fail_nonterminal_runner_call` | the rescue in `run_bot` |
| `Heartbeat`, `abandon_stale_calls`, `WriteRecord`, `record_voice_latency` | heartbeat, watchdog, lane, telemetry |

`CallLifecycle` is what the rest of the system may assume: initializing, active, ending,
then one of four terminal states, and neither status nor reason changes afterwards.

### `RecordingSpool`, `CallArchive`, `CallRetention`, `CallRecordings`

| TLA+ | code |
|---|---|
| `audioQueue`, `unfinished`, `writer`, `failed`, `finalizer` | `CallRecordingWriter`: `_queue` with its unfinished count, `_write_loop`, `_failed`, `finalize()` |
| `accept_audio`, `reject_format`, `take`, `write`, `write_error`, `drain` | the audio callback and the writer task |
| `put_stop`, `resume_put`, `close`, `join` | the awaits of `finalize()` |
| `callStatus`, `deleted`, `due`, `purging`, `recStatus`, `recKey`, `recPath` | the rows of call and recording |
| `files`, `moved` | spool, temporary and object; a changed `RECORDING_SPOOL_DIR` |
| `at` | where each finisher is: the session and every maintenance task |
| `begin`, `encode`, `upload`, `commit`, `undo`, `unlink`, `fail` | `finalize_recording`, one step per transaction, encoding or upload |
| `set_recording_state` | `_set_recording_state` with the locks of both rows |
| `soft_delete_call`, `restore_call`, `claim_purge`, `erase`, `purge_row`, `release` | deletion, restoration and the purge |
| `recover`, `abandon_stale_calls`, `crash` | the recovery, the watchdog, a task or process that dies |

`CallRetention` is what deletion promises: a call can be taken back until it is due, has the
recording it had when it is, and is erased only when nobody can take it back. The rows, files
and tasks implement it (`KeepsRetention`).

### `KnowledgeUnits`, `KnowledgeJobs`, `KnowledgeReleases`, `KnowledgeCorpus`, `KnowledgeControl`

| TLA+ | code |
|---|---|
| `jobs`, `worker`, `loaded` | job rows, each worker process and what its session has read and will write |
| `claim_next_knowledge_job`, `execute`, `succeed`, `raise`, `record_failure`, `success_unanswered`, `execution_unrecorded`, `recover_read`, `recover_write`, `die` | `core/knowledge_worker.py`, `services/knowledge/jobs.py` |
| `page`, `units`, `embedded`, `conflict`, `task` | a page, the units of its sections with their versions, what a worker's job has read |
| `crawl_website_source`, `ingest_page`, `upsert_read`, `upsert_write`, `retire_duplicates`, `embed_units`, `detect_knowledge_conflicts` | the jobs' work |
| `approve_unit`, `retire_unit`, `resolve_conflict` | the reviews of `api/knowledge.py` |
| `release`, `members`, `lock`, `txn` | releases with their units, row locks, each administrator's transaction |
| `lock_target`, `validate_release`, `look_for_current`, `lock_current`, `commit_swap` | `publish_release` and `rollback_release`, one step per lock |

`KnowledgeCorpus` is what retrieval relies on: after the first publication exactly one
release is live, and one that becomes live again was live before.

### `CallerTurns` and its components

| Module | State and actions, and the code |
|---|---|
| `SpeechFinalization` | `native`, `finals`, `completed`, `executor` (native stream, events, completed lines, its thread), `frames`, `pump`, `watchdog`, `batch` (tasks, who holds `_drain_lock`), `gate`, `completion` (the events between them); `run_stt`, `vad_start`, `vad_stop`, `run_event_pump`, `await_native_finalization`, fallback, end |
| `MemoryRetrieval` | `generation`, `retrieval`, `memory`, `pushed`; `process_frame`, `_retrieve_and_push` with its `finally`, supersession |
| `ModelStream` | `request`, `tools`, `offered`; creation, prefetch, retries, tool removal, deadlines, spoken recovery of the Groq service |
| `HedgedStream` | `hedged`, `race`; the hedge delay, the race, closing of losers, deadlines of the Google service. An attempt's creation and prefetch are one state "asking"; a stream left to the garbage collector is "dropped" |
| `IssueWorkflow` | `status`, `complete`, `draft`, `issueId`, `call`, `issues`; every operation of `manage_issue_draft`, the lock, the insert that may time out before or after its commit |
| `QueryEmbedding` | `circuit`, `failures`, `probe`, `inflight`, `cache`, `asker`; the query, its shared task, outcome, probe and cooldown |

`CallerTurns` joins them: `Turn` (a transcript or a typed text starts a turn), `Request`
(its frame reaches the model), `Response` (a stream ends and its tool calls begin) and
`Interruption`, which cancels the retrieval, the request and the tool calls in one step.

### `Conversations` and its components

| Module | State and actions, and the code |
|---|---|
| `ReplyStream` | `uttered`, `guard`, `speech`, `toRecord`, `chunks`, `records`; the three processors a reply's text passes. A text is a sequence of words; guard and speech take a frame in one step |
| `ContextWindow` | `messages`, `frame`, `run`, `busy`, `job`; memory and draft message, window, the summary that is generated and applied or discarded (Pipecat's summarizer is external) |
| `SpeechSynthesis` | `voice`, `executor`, `trimmer`, `audio`; phrases of `KokoroTextAggregator`, the shared executor, `LeadingSilenceTrimmerProcessor` |
| `CallerMemory` | `called`, `accepted` and `unsaved` (what the persistence lane was given and has not committed), `entries`, `unqueued`, `lane`, `work`, `table`, `windows`, `known`, `recall`; `transcript_said`, `transcript_delayed` (retried, spilled or replayed), `transcript_saved` (the commit); the enrichment job step by step, call start, recall, deletion, purge |
| `VoicePage` | `token`, `initializing`, `client`, `attempts`, `teardowns`, `callId`, `status`, `poll`, `late`, `others`; login, logout, start, hang-up, poll of `App.jsx`, a new call by the button of a call that is over or by the Sidebar's, which disconnects an active one first, the capacity check and slot of `main.py` (the transport's client library is external) |

`Conversations` joins them: a response of the model is one in the stream, the context and
an interruption one in all three; the page's attempt `a` is call `a` of the memory; other
calls of the user are made elsewhere.

## 4. Runs

| Run | Properties | What it shows |
|---|---|---|
| `turn_gate` | `NoLeakedKey`, `TurnsAddUp`, `ToolsOnRecord`, `EnrichmentDrains`, `GateIsVoicePriority` | two calls share the gate, one call of two turns has every kind of overlap, the records of one call without tools are followed to the call's summary, and those of tool calls to its end |
| `turn_gate_filler` | `GateCoversReply` is violated | finding 1 |
| `persistence` | `NothingLost`, `OneOwner`, `QueueIsDurableLedger`, `EventuallyDecided`, `DrainsEnd`, `DrainProtectsEarlier` | one crash or shutdown and one fault around the writes of a call; a teardown whose tasks spill out of a full queue shared with another call |
| `persistence_spill` | `SpillKeepsOrder` is violated | finding 2 |
| `call_session` | `StartedOnce`, `CleanEnd`, `SessionIsCallLifecycle`, `EveryCallEnds` | one call with overlapping messages, two faults and the watchdog |
| `call_session_outage` | `OutageWaitedOut` is violated | finding 3 |
| `call_session_rescue` | `StartupFailureIsStartup` is violated | finding 4 |
| `call_archive` | `SpoolComplete`, `DeletionWins`, `FilesMatchRows`, `KeepsRetention`, `FinalizeEnds`, `RecordingSettles`, `PurgeCompletes` | one call recorded, finished, recovered, deleted, restored and purged, with one task or process that dies and two calls that raise |
| `knowledge_control` | `ServedTextApproved`, `OutcomeIsFinal`, `OneLiveRelease`, `JobsEnd` | workers that die and recover, whose commits are not answered or who cannot record a failure, crawls among reviews and publications, two administrators with three releases |
| `caller_turns` | `FiledOnce`, `FinalAfterStop`, `SpeechTranscribed`, `CircuitCloses`, `NoAttemptLeft`, `OwnContext`, `ModelAnswers` | speech, turns, requests, tool calls and retrievals with interruptions, failures and outages |
| `conversations` | `NoOrphanedCall`, `LatestStatementWins`, `RecordsReplies`, `ResultsKeepCalls`, `MemoryOfKeptCalls`, `PageShowsEnd`, `HeardAsTold` | what a call says, keeps and leaves to the next, and the page around it |
| `context_summary` | `SummaryReplacesItsOwn` is violated | finding 5 |

**Exceptions.** Where the code really lets something happen, the property names it:

* `TurnsAddUp`: the count of a turn whose row lost its interruption again (`rewritten`: a
  late post of the page, or `cancelled` left over from before); the summary has no exception.
* `ToolsOnRecord`: operations whose journal could not be written, which `enqueue` refuses and
  nobody saves again, and failures whose fallback failed as well (`unsaved`). It speaks of the
  end by the session: a call the watchdog ended declines what is still owed. Of the reports of
  other components it says that they are counted as they are recorded, not that they are
  recorded: a fallback that starts after `drain` has looked may come too late.
* `FilesMatchRows`, `KeepsRetention`: a recording that was claimed
  while a finisher was at work (`overlapped`: the lease is not renewed).
  `FilesMatchRows` also files whose clean-up was cut short when no row named them
  (`leak`). `PurgeCompletes`: a purge that died with its claim (`stranded`), or a moved spool
  directory. `FinalizeEnds`: the `_STOP` mark put for a writer that has ended (`Wedged`).
* `OutcomeIsFinal`: jobs a recovery took over, or whose success was committed without an
  answer (`taken`). `ServedTextApproved`: units a crawl had read before their review (`raced`).
  `JobsEnd`: a job that is running and that no later start of a worker recovers (`Abandoned`).
  Either its worker died when the claim was not yet stale at the next start, or the worker lives
  on (`core/knowledge_worker.py:28`) after its first read of the job (`jobs.py:116-119`) or its
  record of the failure (`jobs.py:140-153`) raised.
* `FiledOnce`: a draft whose stored row was not reported (`unsure`), or that was begun while
  its predecessor was being stored (`overtaken`). `SpeechTranscribed`: the caller goes on, the
  call is over, or nothing waits for the word (`excused`, with the three ways its comment
  names). `NoAttemptLeft`: a request cancelled during the hedge delay (`strays`).
* `LatestStatementWins`: a kept transcript whose own save was delayed may win against what was
  said after it. The lane retries without the call's lock (`core/task_queue.py:302-331`), spills
  (`538`, finding 2) and replays in random order (`198`), so a later transcript of the call may
  commit, and be enriched, first: a caller who corrects a name may be remembered by the old one.
  In the order of commits the property has no exception.
* `NoOrphanedCall`: a teardown or logout that took another client than its own away, and
  `PageShowsEnd`: a late answer when the poll is off (`raced`). `ResultsKeepCalls`: a draft's
  message that went during a summary (`draftGone`, finding 5). `MemoryOfKeptCalls`: a call
  that was deleted while its recall was read.

**Bounds.** Turn gate: two sessions with one turn each, one of them without tools, are enough
for every pair of a frame and a step of the worker, since the gate only adds and removes keys;
two turns of one session let a dead turn be followed by the next; two jobs and a queue of one
give a full queue and a job behind a preempted one; records: one turn with the page, two
without, one repeated save; tools: one call in two turns with a fault, two at once, one beside a
filler's entry, two entries against a queue of one, two faults around the reports of another
component. Persistence: one plain append, one overwrite and one durable append of one call, two
workers, capacity 1, one fault and one crash, so that replay, queue, overflow and both workers
compete; and without faults three tasks of two calls, so that a task spills behind one of
another call. Session: a grace of 3 ticks is the code's 30 s against its heartbeat of 10 s; two
ready messages overlap; one write beside the greeting; two faults put an outage or a lost answer
beside a process death. Archive: three chunks against a queue of two fill it; two deletions let
one be undone; one maintenance task beside the session is a second finisher; one crash and two
faults reach a failed compensation. Knowledge: two workers and two faults (a crash, a commit
without an answer, a failure that is not recorded) let a claim be taken over and its first
worker go on; one section with two texts and two versions, one change of the page and two
reviews put a review on either side of a crawl's write; three releases let two administrators
replace the one that is live. Turns: two pieces of speech and two starts let a fallback race the
next start; three turns let a superseded retrieval end after the next but one; two attempts and
two hedged requests; three tool calls at once, two drafts and three stored rows let a filed
draft be filed again; a threshold of two and two outages open the circuit, close it and open it
again. Conversations: two responses of four words put a marker, a sentence end and an
interruption into any order; a window of four and eight messages trim twice; a teardown outlives
its login beside a second call, and two teardowns outlive two logins; two words of silence and
three words of speech on one worker; three transcripts let a correction be preempted behind the
statement before it, and two, of which one is delayed, let it commit first. Every run has its
bounds in its cfg and `Scopes`; constants whose comment says "bound" do not exist in the code.

**Symmetry** is not used: the runs that mix scopes finish without it.

**Deadlock** is not checked: calls end, and the bounds stop turns, tasks and faults, after
which nothing has to happen. What must happen is stated as liveness.

**Fairness.** `WF` of the steps the event loop or a thread runs once they are ready (worker
steps, overflow, teardown, heartbeat, event pump, native jobs, recording writer, finishers, a
handler that was answered, timers and deadlines). `WF` of `start` and of a worker process that
ended: `docker-compose.yml` restarts the containers (`restart: unless-stopped`). `WF` of the
maintenance passes, which its loops repeat, and of time. `WF` of the end of a run whose worker
was cancelled, which is Pipecat's contract. `CircuitCloses` needs more: the provider's outage
ends, and other calls go on asking while the circuit is open, because only a request starts the
probe. `PageShowsEnd` needs `SF` of one step: a poll that is repeated for ever is answered
once; and the server ends a call whose connection is down, by its disconnect grace. Nothing is
assumed of the caller, of the model's speed (deadlines are), of the database
(`Recovery` is not fair: liveness is stated for a database that stays up) or of a run nobody
cancelled.

**Mutants.** Each property of a passing run has a mutated definition (`"mutants"` in
`PROJECT.json`) under which TLC refutes it.

### Assumptions between modules

* `PersistenceQueue` treats a session as going from live to drained to over, without
  heartbeat: the watchdog may abandon a call there only after its session is over. That an
  activated call is not abandoned earlier without a fault is `CleanEnd` of `CallSession`;
  the case with a fault is finding 3.
* `CallSession` treats the lane as a number of writes owed, each of which is decided if the
  database stays up: that is `EventuallyDecided`, and `wait_for_key` is `DrainsEnd` and
  `DrainProtectsEarlier`. The recording is a delay in its teardown: that is `FinalizeEnds`.
* In `CallSession` the ready handlers that wait for the row are answered before
  `mark_call_ending` is: both ask for the same row lock, and the handlers asked first.
* A transaction takes less than one tick of 10 s. `worker.cancel` is one step.
* `SpeechFinalization`: the watchdog's grace outlasts the forwarding of a stop frame, a pump
  that waits for the drain lock runs before the next frame is handled, and a delivery may be
  suspended between taking the finals and pushing them.
* `CallerTurns`: an interruption cancels retrieval, request and tool calls at once, as
  Pipecat's interruption frame does in one pass.
* `ReplyStream`: the end frame of a cancelled response may arrive or not.
* `CallerMemory`: what the user says is any transcript, what the classifier finds is one of
  `Classifications` or nothing; the lane of enrichment is `TurnGate`'s, in order and
  preemptible. The saves of a call commit in the order of the persistence lane's queue, except
  those that are delayed, which commit at any time while the call is open; a save holds the
  call's lock until it has enqueued the enrichment, which may be lost.
* `SpeechSynthesis`: a reply's further text waits while a phrase of it is synthesized, as the
  service pushes its frames in order.
* `VoicePage`: a client library that disconnects reports its connection as down.

## 5. Findings

1. **`GateCoversReply`** (`core/processors.py:612`). The docstring of `finish_tts` says it
   is to "Release deferred work only after response audio generation ends". The filler of a
   tool call has start and stop frames of its own; its stop frame calls `finish_tts` while
   the tool runs, which releases the gate and closes the turn's identity before the answer.
2. **`SpillKeepsOrder`** (`core/task_queue.py:534`). A task that spilled waits in an
   overflow task. If a slot comes free before that task runs, `enqueue` puts a later task of
   the same call into it. The test of spilled tasks asserts `["first", "second"]`.
3. **`OutageWaitedOut`** (`main.py:626`). An exception of `touch_active_call` ends the
   heartbeat for good. The teardown then waits through the outage, as its comment says it
   should, but nobody touches the row: the watchdog abandons the call and the writes that
   were waited for are declined.
4. **`StartupFailureIsStartup`** (`main.py:928`). `run_bot` calls
   `fail_nonterminal_runner_call` for every exception of `_run_bot`, also for one of the
   teardown's `finalize_call`; a call that ran is recorded as `pipeline_startup_failed`.
5. **`SummaryReplacesItsOwn`** (`core/processors.py:873`). `_refresh_workflow_context` takes
   the draft's message out of the context without bumping the mutation epoch, whose docstring
   says it "Tracks destructive context mutations while allowing ordinary appends". A summary
   that is being generated and counted the message is not discarded, and when it is applied
   by its length it also takes out a message it is not of.

## 6. Proofs

The theorems are `Spec => []P`, `Spec => [][A]_v` or `Spec => Abstract!Spec`, for every value
of the constants that the named assumptions allow. Those say that bounds are natural numbers,
that a capacity, a grace or a threshold is positive, that sets that are meant to be apart are,
and that the value for "none" is not a member. No other fact is taken on trust.

**`TurnGateProofs`.** `GateInv` is type, `NoLeakedKey`, `IdleEventAgrees` and
`EnrichmentYields`. The four need each other: every `end` in the code names only the
session's current turn, so it empties the gate of that session only because no older key is
in it, and only then does the idle event tell the truth. `LaneInv` (the queue repeats no job,
and its jobs, like the worker's, are owed a result) gives `JobKept`. Results:
`GateAlwaysSound`, `GateTypeCorrect`, `NoKeyLeaks`, `IdleEventTruthful`,
`EnrichmentAlwaysYields`, `JobsAreKept`, `GateImplementsPriority`. The refinement is a step
proof: an `end` is a `Release`, a `start_turn` that begins is a `Claim` (or a stutter, if the
session was busy), a registration is `StartWork`.

**`RecordsProofs`.** `RecordsInv` is type, `CountInv` (the count of interruptions is that of the
rows until one is rewritten) and `SummaryInv` (only timed rows are summarised, and the summary
is of the rows once the call is terminal). `ToolsInv` is type, `FiledInv` (what is filed of a
tool call, be it with the lane, a fallback, a row or given up, is what its outcome owes and of
one turn, and what it owes is filed until the watchdog has closed the call), `EndInv` (what each
stage of the teardown has waited for is gone: a fallback of a tool call started before
`drain` looked, since the pipeline had stopped) and `RowsInv`. Both are kept beside `GateInv`,
of whose steps theirs are. Results: `RecordsAlwaysSound`, `TurnsAlwaysAddUp`,
`ToolsAlwaysSound`, `ToolsTypeCorrect`, `ToolsAlwaysOnRecord`.

**`PersistenceQueueProofs`.** `QueueInv` adds four parts to the checked invariants.
`LockInv`: a worker with a job stands in its call's line and one that was answered owns
the lock, so the lock's hand-over is to one worker. `JournalInv`: what is claimed is
journaled and what is journaled was accepted. `AnsweredInv`: a worker lets go of a durable
task only after it is written or declined, which is why the unlink loses nothing.
`CallInv`: while a call's session has not drained, each accepted durable task of it is
written or held, and nothing of an open call is declined; with an exact count
(`PendingCountsHeld`) an empty count then means everything was written. Results:
`QueueAlwaysSound`, `QueueTypeCorrect`, `AcceptedIsJournaled`, `OneOwnerOnly`,
`CountsAreExact`, `DrainIsEnough`, `QueueImplementsLedger`.

**`CallSessionProofs`.** `SessionInv` is type plus `StartInv` (an activated call has
greeted and has a heartbeat until its session ends it; a session in start-up has not
activated), `ReasonInv` (a reason exactly when terminal; an open call has declined nothing)
and `AliveInv` (without a fault, the row of an activated call is never older than one tick
until its session has made it terminal, hence never stale for any positive grace; afterwards
its reason is the session's own). `CleanEnd` is not inductive without it: the watchdog's
guard speaks of the age. Results: `SessionAlwaysSound`, `SessionTypeCorrect`,
`CallStartsOnce`, `FaultlessCallEndsClean`, `SessionImplementsLifecycle`.

**`CallRecordingsProofs`.** `RecordingsInv` is `SpoolInv` (every chunk heard is written, queued
or in the writer's hand, unless the spool failed) and, for the archive, `RowInv` (what the two
rows say of each other; deletion wins), `PurgeInv` (what a purge read when it claimed still
covers the files), `RecordingInv` (where the files of a recording are at each step of each
finisher, unless two overlapped) and `FilesInv` (every file has a row, a task or an entry in
`leak` that accounts for it). Results: `RecordingsAlwaysSound`, `RecordingsTypeCorrect`,
`IntactSpoolIsComplete`, `DeletionAlwaysWins`, `FilesFollowRows` and
`ArchiveImplementsRetention`.

**`KnowledgeControlProofs`.** `ControlInv` is `JobInv` (types; a session will write only rows it
has read; a job held and not taken over is still claimed by its holder, and a commit without an
answer counts as taken over) and `CorpusInv`: `TextInv` (an approved unit's text was approved,
or raced), `LockInv` (who is past a lock holds it, so what was validated is still so at the
commit), `MembersInv` (a release's units were approved when it was made). Results:
`ControlAlwaysSound`, `ControlTypeCorrect`, `ServedIsApproved`, `OutcomesAreFinal`,
`OneReleaseIsLive`.

**`CallerTurnsProofs`.** `IssueInv` is type, `SubmitInv` (one call submits at a time, and the
status says so) and `FiledInv` (a stored row is of a finished draft, of the one a call is about
to report, or unsure). `GenerationInv`: a running retrieval is the newest turn's and its frame
has not gone on. `HedgedInv`: whoever holds a stream races for the current request, while that is
in its delay or race, or is a stray; at most two attempts race, one during the delay, so
that the one attempt a cancelled delay leaves behind is the one that becomes a stray. `HeldBack`:
while a stop frame is being forwarded its gate is closed and nobody delivers; no final that is
waiting, and none that is being pushed, was heard after more stop frames than were received or
forwarded. `RequestInv`: tools are taken away only while a request is being tried, and one that
is answered has put something out. `CircuitInv`: a circuit that is not closed has counted
its failures, and is half open only with its probe at work. `WordsInv`: each word that was said
is in the executor, the stream, its finals or a task, or among the transcripts or the
excused (`Placed`), and along that way later words come later (`OrderInv`); it holds because a
cancelled task's finals are excused and a flushed stream leaves nothing behind. `BoundsInv`:
the stages of frames, pump and watchdog allow at most one piece of audio and one flush in the
executor, each word makes at most one line, and each new stream follows a stop. Results:
`IssueAlwaysSound`, `DraftFiledOnce`, `GenerationAlwaysSound`, `MemoryIsOwn`, `RaceAlwaysSound`,
`NoAttemptIsLeft`, `FinalsAlwaysHeldBack`, `FinalsFollowStop`, `RequestAlwaysSound`,
`ToolsComeBack`, `CircuitAlwaysSound`, `CircuitTypeCorrect`, `WordsAlwaysSound`,
`NoWordIsLost`, `TranscriptsInOrder`, `BoundsAlwaysSound`, `TurnsTypeCorrect`.

**`ConversationsProofs`.** `PageInv` is the types the proof needs and `ClientInv`: without a
token there is no client, a run that makes one finds none, a logout in progress is waited for by
its own teardown, and every call in use is of the client or has a teardown. It is kept until a
teardown or logout takes another client away, after which nothing is claimed. `MemoryInv`: the
transcripts of a call stand in the order of their commits, at work, in the lane and before it
(`InOrder`); no fact is stored yet of what was committed after one that waits (`Unsaid`), so a
job that is preempted and repeated finds no newer statement of its call; the row of a single
value is that of the newest commit (`CommittedWins`); rows and windows are of calls that are not
purged. `SaidInv` relates commits to speech: what was committed after something said later was
delayed, and so was what still waits when something said later is committed.
`NewestStatementWins` follows from the two. `HeardInv`, for each caller: a phrase is of the last
words told (`Phrased`); each word that was spoken was heard in its order or was lost with an
interruption or a failure (`Accounted`); the trimmer knows whether a word came, and what it
withheld is silence (`Trimmed`). `ContextInv`: messages are distinct (`Numbered`), each call is
followed by its result (`Paired`), memory and draft have at most one message each (`Single`),
and what a summary that is neither stale nor hit by finding 5 is of is still the beginning of
the context and ends with no call (`Covers`): so taking as many messages from the front leaves
no result without its call, and `trim`, which begins the window where a user's message or a
summary starts a group, leaves none either. `PageShape` is the types of the page with what
bounds them: clients, teardowns and runs together stay within their bound, a poll that is read
has an answer, and live calls and those of others are at most the slots. Results:
`EveryCallCanBeEnded`, `MemoryAlwaysSound`, `NewestStatementWins`, `PurgedIsForgotten`,
`HeardAlwaysSound`, `EveryWordIsHeard`, `SynthesisTypeCorrect`, `ContextAlwaysSound`,
`ContextTypeCorrect`, `CallsKeepTheirResults`, `MemoryTypeCorrect`, `PageAlwaysTyped`,
`PageTypeCorrect`, `SlotsAreBounded`.

**Types.** The type invariants of the turn gate with its records, the persistence lane, the
session, the archive, the control plane and the caller's turns (`TurnsTypeCorrect`) are proved
and therefore in no run. Of `Conversations` those of context, voices, memory and page are;
`ReplyTypeOK` bounds what `FoldLeft` makes of a text and is stated only, as part of the `TypeOK`
that can be added to the cfg.

**Only model-checked.** All liveness (`EnrichmentDrains`, `EventuallyDecided`, `DrainsEnd`,
`EveryCallEnds`, `FinalizeEnds`, `RecordingSettles`, `PurgeCompletes`, `JobsEnd`,
`SpeechTranscribed`, `CircuitCloses`, `ModelAnswers`, `PageShowsEnd`): fairness and `ENABLED`
are outside the prover. The safety in three of them is proved: that no word is lost
(`NoWordIsLost`), that a half-open circuit has its probe (`CircuitTypeCorrect`) and that a request
that is over has given its tools back (`ToolsComeBack`). One action property: `RecordsReplies`
speaks of what `FlattenSeq` and `FoldLeft` make of a whole reply, which takes induction over
sequences.

## 7. What is not modelled, and why

The parts of section 1's second table. Inside the modelled components: the numbers of latency
telemetry; the quarantine of malformed journal files (no state that another part reads); the
live messages that repeat a record to the page; the assembly of a pipeline, which is one step
that may fail; the wording of fields, facts and prompts; `get_kokoro_runtime` after a shutdown;
the stop-frame time-out of synthesis; a second process of the backend on the same spool (the
deployment runs one container, `docker-compose.yml`).

Hazards that are known and have no property, because what the code does there is what its
comments allow, or one reading of the line settles it: a response without any output keeps the
gate until the next turn (`core/processors.py:615`); replay runs in the order of random file
names (`core/task_queue.py:198`, of which the model of memory has the effect,
`transcript_delayed`); locks and events of calls are kept until the queue stops
(`core/task_queue.py:304`); a fatal error's verdict may be overwritten by a hang-up
(`main.py:783`); the grace flag may outlive a reconnection (`main.py:761`).
