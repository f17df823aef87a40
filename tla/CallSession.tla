---- MODULE CallSession ----
(***************************************************************************)
(* One call from its row to its end: the session (_run_bot and run_bot in  *)
(* main.py), its client, its heartbeat, the watchdog of call_maintenance,  *)
(* and the transactions of services/calls.py they race through.  Writes of *)
(* the call go through the persistence lane (module PersistenceQueue),     *)
(* here only a number of writes still owed.                                *)
(*                                                                         *)
(* A step is one transaction together with what its coroutine does until   *)
(* its next await.  A tick is 10 seconds, the period of the heartbeat.     *)
(***************************************************************************)
EXTENDS Naturals

CONSTANTS
  Stale,      \* the watchdog's grace, in ticks
  MaxReady,   \* bound: client-ready messages
  MaxWrites,  \* bound: writes of the call
  MaxFaults   \* bound: outages, lost answers, process deaths

ASSUME SessionAssumption ==
  /\ Stale \in Nat \ {0} /\ MaxReady \in Nat /\ MaxWrites \in Nat /\ MaxFaults \in Nat

VARIABLES
  db,            \* whether the database answers
  status, reason,  \* Call.status, Call.end_reason
  age,           \* ticks since Call.updated_at
  pc,            \* where the session is
  raised,        \* whether _run_bot leaves with an exception
  verdict, why,  \* final_status, final_reason
  activated,     \* call_activated
  startupSent,   \* startup_sent
  greetings,     \* greetings spoken
  asked, readies,  \* client-ready handlers inside mark_call_active; messages
  beat,          \* call_heartbeat_task
  here,          \* whether the client is connected
  grace,         \* whether disconnect_grace_task runs
  graceExpired,  \* disconnect_grace_expired
  userEnd,       \* user_end_requested
  stopping,      \* whether the worker was cancelled
  owed, writes,  \* accepted writes not yet decided; all of them
  declined,      \* writes that found the call terminal
  faults         \* counter for the bound

row == <<status, reason, age>>
verdicts == <<verdict, why>>
ready == <<activated, startupSent, greetings, asked, readies>>
client == <<here, grace, graceExpired, userEnd, stopping>>
lane == <<owed, writes, declined>>
vars == <<db, row, pc, raised, verdicts, ready, beat, client, lane, faults>>

Terminal == {"completed", "failed", "cancelled", "abandoned"}
Statuses == {"initializing", "active", "ending"} \cup Terminal
EndReasons == {"runner_finished", "pipeline_fatal", "user_ended", "client_disconnect",
               "worker_cancelled", "runner_exception", "client_not_ready",
               "provider_startup_failed", "pipeline_startup_failed", "worker_lost"}
Places == {"startup", "running", "leaving", "draining", "finalizing", "rescue", "over"}
Beats == {"none", "asleep", "due", "stopped"}

Init ==
  /\ db = TRUE
  /\ status = "initializing" /\ reason = "none" /\ age = 0
  /\ pc = "startup" /\ raised = FALSE
  /\ verdict = "completed" /\ why = "runner_finished"
  /\ activated = FALSE /\ startupSent = FALSE /\ greetings = 0
  /\ asked = 0 /\ readies = 0
  /\ beat = "none"
  /\ here = FALSE /\ grace = FALSE /\ graceExpired = FALSE
  /\ userEnd = FALSE /\ stopping = FALSE
  /\ owed = 0 /\ writes = 0 /\ declined = 0
  /\ faults = 0

Live == status \notin Terminal

\* finalize_call: the first terminal status stands (and nobody asks for the age of a
\* terminal call).
finalize_call(s, r) ==
  IF Live THEN status' = s /\ reason' = r /\ UNCHANGED age ELSE UNCHANGED row

---------------------------------------------------------------------------
\* Start-up: provider construction, then the configuration snapshot.

ProviderFails ==
  /\ pc = "startup"
  /\ IF db THEN finalize_call("failed", "provider_startup_failed") ELSE UNCHANGED row
  /\ pc' = "rescue" /\ raised' = TRUE
  /\ UNCHANGED <<db, verdicts, ready, beat, client, lane, faults>>

\* Whatever else fails before the worker runs, the snapshot in an outage included.
AssemblyFails ==
  /\ pc = "startup"
  /\ pc' = "rescue" /\ raised' = TRUE
  /\ UNCHANGED <<db, row, verdicts, ready, beat, client, lane, faults>>

snapshot_call_configuration ==
  /\ pc = "startup" /\ db
  /\ age' = IF Live THEN 0 ELSE age
  /\ pc' = "running"
  /\ UNCHANGED <<db, status, reason, raised, verdicts, ready, beat, client, lane, faults>>

---------------------------------------------------------------------------
\* The client.

on_client_connected ==
  /\ pc = "running" /\ ~here
  /\ here' = TRUE /\ grace' = FALSE
  /\ UNCHANGED <<db, row, pc, raised, verdicts, ready, beat, graceExpired, userEnd,
                 stopping, lane, faults>>

on_client_disconnected ==
  /\ pc = "running" /\ here
  /\ here' = FALSE
  /\ IF userEnd THEN stopping' = TRUE /\ UNCHANGED grace
     ELSE grace' = TRUE /\ UNCHANGED stopping
  /\ UNCHANGED <<db, row, pc, raised, verdicts, ready, beat, graceExpired, userEnd,
                 lane, faults>>

\* Fault: the end of the grace does not cancel the worker.
graceForgetsWorker ==
  /\ pc = "running" /\ grace
  /\ grace' = FALSE /\ graceExpired' = TRUE
  /\ why' = "client_disconnect"
  /\ UNCHANGED <<db, row, pc, raised, verdict, ready, beat, here, userEnd, stopping, lane,
                 faults>>

expire_disconnect_grace ==
  /\ pc = "running" /\ grace
  /\ grace' = FALSE /\ graceExpired' = TRUE /\ stopping' = TRUE
  /\ why' = "client_disconnect"
  /\ UNCHANGED <<db, row, pc, raised, verdict, ready, beat, here, userEnd, lane, faults>>

\* The message call.end.
on_client_message ==
  /\ pc = "running" /\ here
  /\ userEnd' = TRUE /\ stopping' = TRUE
  /\ why' = "user_ended"
  /\ UNCHANGED <<db, row, pc, raised, verdict, ready, beat, here, grace, graceExpired,
                 lane, faults>>

\* A handler starts for every ready message, and they overlap.
on_client_ready ==
  /\ pc = "running" /\ here
  /\ readies < MaxReady
  /\ readies' = readies + 1 /\ asked' = asked + 1
  /\ UNCHANGED <<db, row, pc, raised, verdicts, activated, startupSent, greetings, beat,
                 client, lane, faults>>

\* mark_call_active, on the row.
Activation ==
  IF status = "initializing" THEN status' = "active" /\ age' = 0 /\ UNCHANGED reason
  ELSE UNCHANGED row

\* Fault: every acknowledged ready message starts the call.
acknowledgeAlways(now) ==
  /\ activated' = (activated \/ now) /\ startupSent' = TRUE
  /\ greetings' = greetings + 1

\* _acknowledge_client_ready
acknowledge(now) ==
  /\ activated' = (activated \/ now) /\ startupSent' = TRUE
  /\ greetings' = greetings + (IF startupSent THEN 0 ELSE 1)

\* The rest of the handler.  An exception of the transaction ends it, also one that
\* hides a commit; the greeting is itself a write of the call.
ClientReadyAnswered ==
  /\ asked > 0 /\ pc \in {"running", "leaving"}
  /\ asked' = asked - 1
  /\ \/ /\ db
        /\ Activation
        /\ acknowledge(status = "initializing")
        /\ beat' = IF activated' /\ beat = "none" THEN "asleep" ELSE beat
        /\ IF startupSent THEN UNCHANGED <<owed, writes>>
           ELSE owed' = owed + 1 /\ writes' = writes + 1
        /\ UNCHANGED faults
     \/ /\ db /\ faults < MaxFaults
        /\ Activation
        /\ faults' = faults + 1
        /\ UNCHANGED <<activated, startupSent, greetings, beat, owed, writes>>
     \/ /\ ~db
        /\ UNCHANGED <<row, activated, startupSent, greetings, beat, owed, writes, faults>>
  /\ UNCHANGED <<db, pc, raised, verdicts, readies, client, declined>>

---------------------------------------------------------------------------
\* The pipeline.

\* Transcripts, turns, operations and events of the conversation, and the events of
\* its teardown.
Speak ==
  /\ pc \in {"running", "leaving", "draining"}
  /\ writes < MaxWrites
  /\ owed' = owed + 1 /\ writes' = writes + 1
  /\ UNCHANGED <<db, row, pc, raised, verdicts, ready, beat, client, declined, faults>>

on_pipeline_error ==
  /\ pc = "running"
  /\ verdict' = "failed" /\ why' = "pipeline_fatal"
  /\ stopping' = TRUE
  /\ UNCHANGED <<db, row, pc, raised, ready, beat, here, grace, graceExpired, userEnd,
                 lane, faults>>

Leave == pc' = "leaving" /\ grace' = FALSE

leaving == UNCHANGED <<db, row, ready, beat, here, graceExpired, userEnd, stopping,
                       lane, faults>>

\* runner.run returns: after a cancel of the worker, or by itself.
RunReturns ==
  /\ pc = "running"
  /\ Leave
  /\ UNCHANGED <<raised, verdicts>>
  /\ leaving

\* runner.run is cancelled: by a cancel of the worker, or with the process.
RunCancelled ==
  /\ pc = "running"
  /\ Leave /\ raised' = TRUE
  /\ IF graceExpired \/ userEnd THEN verdict' = "completed" /\ UNCHANGED why
     ELSE verdict' = "cancelled" /\ why' = "worker_cancelled"
  /\ leaving

RunRaises ==
  /\ pc = "running"
  /\ Leave /\ raised' = TRUE
  /\ verdict' = "failed" /\ why' = "runner_exception"
  /\ leaving

---------------------------------------------------------------------------
\* Teardown: the finally block of _run_bot.

\* Fault: a call that is being torn down or over is closed again.
closeAnything ==
  /\ pc = "leaving" /\ asked = 0
  /\ pc' = "draining"
  /\ IF db THEN status' = "ending" /\ age' = 0 ELSE UNCHANGED <<status, age>>
  /\ UNCHANGED <<db, reason, raised, verdicts, ready, beat, client, lane, faults>>

\* Fault: the heartbeat ends with the other background tasks, before the drain.
heartbeatEndsFirst ==
  /\ pc = "leaving" /\ asked = 0
  /\ pc' = "draining" /\ beat' = "stopped"
  /\ IF db /\ Live /\ status # "ending" THEN status' = "ending" /\ age' = 0
     ELSE UNCHANGED <<status, age>>
  /\ UNCHANGED <<db, reason, raised, verdicts, ready, client, lane, faults>>

\* An exception of the transaction is only recorded.  What asked for the row before
\* is answered before.  Stopping the recording follows, and takes its time.
mark_call_ending ==
  /\ pc = "leaving" /\ asked = 0
  /\ pc' = "draining"
  /\ IF db /\ Live /\ status # "ending" THEN status' = "ending" /\ age' = 0
     ELSE UNCHANGED <<status, age>>
  /\ UNCHANGED <<db, reason, raised, verdicts, ready, beat, client, lane, faults>>

wait_for_key ==
  /\ pc = "draining" /\ owed = 0
  /\ pc' = "finalizing"
  /\ UNCHANGED <<db, row, raised, verdicts, ready, beat, client, lane, faults>>

\* The last transaction, then the heartbeat is cancelled either way.
Finalize ==
  /\ pc = "finalizing"
  /\ \/ /\ db
        /\ IF ~activated /\ verdict = "completed"
           THEN finalize_call("failed", "client_not_ready")
           ELSE finalize_call(verdict, why)
        /\ pc' = (IF raised THEN "rescue" ELSE "over") /\ UNCHANGED raised
     \/ /\ ~db
        /\ pc' = "rescue" /\ raised' = TRUE
        /\ UNCHANGED row
  /\ beat' = "stopped"
  /\ UNCHANGED <<db, verdicts, ready, client, lane, faults>>

\* The loop cancels what is left when the server shuts down, the teardown included:
\* only its inner finally still runs, and the rescue.
TeardownCancelled ==
  /\ pc \in {"leaving", "draining", "finalizing"} /\ faults < MaxFaults
  /\ pc' = "rescue" /\ raised' = TRUE
  /\ beat' = "stopped" /\ asked' = 0
  /\ faults' = faults + 1
  /\ UNCHANGED <<db, row, verdicts, activated, startupSent, greetings, readies, client,
                 lane>>

\* run_bot, for every exception of _run_bot.
fail_nonterminal_runner_call ==
  /\ pc = "rescue"
  /\ IF db THEN finalize_call("failed", "pipeline_startup_failed") ELSE UNCHANGED row
  /\ pc' = "over"
  /\ UNCHANGED <<db, raised, verdicts, ready, beat, client, lane, faults>>

---------------------------------------------------------------------------
\* Heartbeat, watchdog, persistence lane and environment.

\* The client's measurement of a turn, accepted for as long as the call is open.
record_voice_latency ==
  /\ db /\ Live /\ writes < MaxWrites
  /\ owed' = owed + 1 /\ writes' = writes + 1
  /\ UNCHANGED <<db, row, pc, raised, verdicts, ready, beat, client, declined, faults>>

\* A writer of services/calls.py, run by the lane; it outlives the session.
WriteRecord ==
  /\ owed > 0 /\ db
  /\ owed' = owed - 1
  /\ IF Live THEN age' = 0 /\ UNCHANGED declined
     ELSE declined' = declined + 1 /\ UNCHANGED age
  /\ UNCHANGED <<db, status, reason, pc, raised, verdicts, ready, beat, client, writes,
                 faults>>

\* touch_active_call; nothing catches its exception, which ends the task.
Heartbeat ==
  /\ beat = "due"
  /\ IF db /\ Live THEN age' = 0 /\ beat' = "asleep"
     ELSE beat' = "stopped" /\ UNCHANGED age
  /\ UNCHANGED <<db, status, reason, pc, raised, verdicts, ready, client, lane, faults>>

abandon_stale_calls ==
  /\ db /\ Live /\ age > Stale
  /\ status' = "abandoned" /\ reason' = "worker_lost"
  /\ UNCHANGED <<db, age, pc, raised, verdicts, ready, beat, client, lane, faults>>

\* A timer that is due fires before time goes on.
Tick ==
  /\ beat # "due"
  /\ age' = IF age > Stale THEN age ELSE age + 1
  /\ beat' = IF beat = "asleep" THEN "due" ELSE beat
  /\ UNCHANGED <<db, status, reason, pc, raised, verdicts, ready, client, lane, faults>>

Outage ==
  /\ db /\ faults < MaxFaults
  /\ db' = FALSE /\ faults' = faults + 1
  /\ UNCHANGED <<row, pc, raised, verdicts, ready, beat, client, lane>>

Recovery ==
  /\ ~db
  /\ db' = TRUE
  /\ UNCHANGED <<row, pc, raised, verdicts, ready, beat, client, lane, faults>>

\* The journal keeps what is owed; the next process replays it.
ProcessDies ==
  /\ pc # "over" /\ faults < MaxFaults
  /\ pc' = "over" /\ faults' = faults + 1
  /\ beat' = "stopped" /\ asked' = 0 /\ grace' = FALSE
  /\ UNCHANGED <<db, row, raised, verdicts, activated, startupSent, greetings, readies,
                 here, graceExpired, userEnd, stopping, lane>>

Teardown == \/ mark_call_ending \/ wait_for_key \/ Finalize
            \/ fail_nonterminal_runner_call

Next ==
  \/ ProviderFails \/ AssemblyFails \/ snapshot_call_configuration
  \/ on_client_connected \/ on_client_disconnected \/ expire_disconnect_grace
  \/ on_client_message \/ on_client_ready \/ ClientReadyAnswered
  \/ Speak \/ on_pipeline_error \/ RunReturns \/ RunCancelled \/ RunRaises
  \/ Teardown \/ TeardownCancelled
  \/ record_voice_latency \/ WriteRecord \/ Heartbeat \/ abandon_stale_calls
  \/ Tick \/ Outage \/ Recovery \/ ProcessDies

\* The loop runs every ready task, the lane retries and survives restarts, the
\* maintenance loop scans every 30 seconds, and a cancelled worker ends its run.
Spec ==
  /\ Init /\ [][Next]_vars
  /\ WF_vars(Teardown) /\ WF_vars(ClientReadyAnswered)
  /\ WF_vars(WriteRecord) /\ WF_vars(Heartbeat) /\ WF_vars(Tick)
  /\ WF_vars(abandon_stale_calls)
  /\ WF_vars(expire_disconnect_grace)
  /\ WF_vars(stopping /\ (RunReturns \/ RunCancelled))

---------------------------------------------------------------------------
TypeOK ==
  /\ {db, raised, activated, startupSent, here, grace, graceExpired, userEnd, stopping}
       \subseteq BOOLEAN
  /\ status \in Statuses /\ reason \in EndReasons \cup {"none"}
  /\ age \in 0..(Stale + 1)
  /\ pc \in Places /\ beat \in Beats
  /\ verdict \in Terminal /\ why \in EndReasons
  /\ greetings \in Nat /\ asked \in 0..MaxReady /\ readies \in 0..MaxReady
  /\ owed \in Nat /\ writes \in Nat /\ declined \in Nat
  /\ owed + declined <= writes
  /\ faults \in 0..MaxFaults

\* However many ready messages overlap, with reconnects, outages and lost answers in
\* between, the call greets at most once, and one that the session knows to be active
\* has greeted and has its heartbeat.
StartedOnce == greetings <= 1 /\ (activated => greetings = 1 /\ beat # "none")

\* Without a fault, a call that was activated ends with the verdict of its own
\* session: neither the watchdog nor the rescue of failed start-ups takes it over,
\* however long the teardown lasts, and every write accepted until the drain ends finds
\* the call open.
CleanEnd ==
  faults = 0 /\ activated =>
    /\ reason \notin {"worker_lost", "pipeline_startup_failed"}
    /\ declined > 0 => pc \in {"rescue", "over"}

\* A session that has left its run, in whatever way, leaves no call open once the
\* database stays up; a client that stays away ends the run.
EveryCallEnds ==
  <>[]db => /\ [](pc \notin {"startup", "running"} => <>~Live)
            /\ [](pc = "running" /\ activated => <>(pc # "running" \/ here))
            /\ [](pc = "running" /\ stopping => <>(pc # "running"))

\* Teardown keeps the heartbeat running and waits through an outage, so the call is
\* not terminal while it still owes writes (the comment in the drain loop of main.py).
OutageWaitedOut == activated /\ pc = "draining" /\ owed > 0 => Live

\* Only a call that never started is recorded as a failed start-up
\* (the docstring of fail_nonterminal_runner_call).
StartupFailureIsStartup == reason = "pipeline_startup_failed" => ~activated

Lifecycle == INSTANCE CallLifecycle WITH Reasons <- EndReasons

\* Session, client, watchdog and rescue together move the call forward only, and
\* the first terminal verdict stands.
SessionIsCallLifecycle == Lifecycle!Spec
====
