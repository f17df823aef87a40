---- MODULE CallSessionProofs ----
(***************************************************************************)
(* For any grace of the watchdog and any number of messages, writes and    *)
(* faults: the call moves forward only, starts once, and without a fault   *)
(* ends with the verdict of its own session.                               *)
(***************************************************************************)
EXTENDS CallSession, TLAPS

\* The reasons a session gives itself before its teardown.
OwnReasons == {"runner_finished", "pipeline_fatal", "user_ended", "client_disconnect",
               "worker_cancelled", "runner_exception"}

\* Before the worker runs there was no client, so nothing is activated; the heartbeat
\* starts with the activation and is stopped with the session.
StartInv ==
  /\ pc = "startup" => ~activated
  /\ asked <= readies
  /\ activated => startupSent
  /\ greetings = IF startupSent THEN 1 ELSE 0
  /\ activated => beat # "none"
  /\ pc \notin {"rescue", "over"} /\ ~activated => beat = "none"

\* A call has a reason when it is over, and the session's own until then is one of its.
\* An open call declines no write.
ReasonInv ==
  (Live <=> reason = "none") /\ why \in OwnReasons /\ (Live => declined = 0)

\* With a database that never failed, an activated call is touched in every tick
\* until its session has made it terminal.
Fresh == (beat = "asleep" /\ age = 0) \/ (beat = "due" /\ age <= 1)

AliveInv ==
  faults = 0 =>
    /\ db
    /\ activated /\ pc \notin {"rescue", "over"} => Live /\ Fresh
    /\ activated /\ pc \in {"rescue", "over"}
         => ~Live /\ reason \notin {"worker_lost", "pipeline_startup_failed"}

SessionInv == TypeOK /\ StartInv /\ ReasonInv /\ AliveInv

---------------------------------------------------------------------------
\* The initial state and the steps of start-up and client.
LEMMA InitSessionInv == Init => SessionInv
<1> SUFFICES ASSUME Init PROVE SessionInv
  OBVIOUS
<1>1. TypeOK
  <2>1. {db, raised, activated, startupSent, here, grace, graceExpired, userEnd, stopping}
          \subseteq BOOLEAN
    BY Zenon DEF Init
  <2>2. 0 \in 0..(Stale + 1) /\ 0 \in 0..MaxReady /\ 0 \in 0..MaxFaults
    BY SessionAssumption
  <2> QED
    BY <2>1, <2>2 DEF Init, TypeOK, Statuses, EndReasons, Places, Beats, Terminal
<1>2. StartInv /\ ReasonInv /\ AliveInv
  BY DEF Init, StartInv, ReasonInv, OwnReasons, AliveInv, Live, Terminal
<1> QED
  BY <1>1, <1>2 DEF SessionInv

LEMMA ClientKeepsSessionInv ==
  ASSUME SessionInv,
         \/ ProviderFails \/ AssemblyFails \/ snapshot_call_configuration
         \/ on_client_connected \/ on_client_disconnected \/ expire_disconnect_grace
         \/ on_client_message \/ on_client_ready
  PROVE  SessionInv'
<1> USE DEF row, verdicts, ready, client, lane, Live, Fresh
<1>1. CASE ProviderFails \/ AssemblyFails
  <2>1. TypeOK'
    BY <1>1 DEF SessionInv, TypeOK, ProviderFails, AssemblyFails, finalize_call, Statuses,
                EndReasons, Places, Terminal
  <2>2. StartInv' /\ ReasonInv' /\ AliveInv'
    BY <1>1 DEF SessionInv, StartInv, ReasonInv, AliveInv, ProviderFails, AssemblyFails,
                finalize_call, Terminal
  <2> QED
    BY <2>1, <2>2 DEF SessionInv
<1>2. CASE snapshot_call_configuration
  <2>1. TypeOK'
    <3>1. age' \in 0..(Stale + 1) /\ pc' \in Places
      BY <1>2, SessionAssumption DEF SessionInv, TypeOK, snapshot_call_configuration, Places
    <3>2. UNCHANGED <<db, status, reason, raised, verdicts, ready, beat, client, lane, faults>>
      BY <1>2 DEF snapshot_call_configuration
    <3> QED
      BY <3>1, <3>2 DEF SessionInv, TypeOK
  <2>2. StartInv' /\ ReasonInv' /\ AliveInv'
    BY <1>2 DEF SessionInv, StartInv, ReasonInv, AliveInv, snapshot_call_configuration
  <2> QED
    BY <2>1, <2>2 DEF SessionInv
<1>3. CASE on_client_connected \/ on_client_disconnected
  <2>1. TypeOK'
    BY <1>3 DEF SessionInv, TypeOK, on_client_connected, on_client_disconnected
  <2>2. StartInv' /\ ReasonInv' /\ AliveInv'
    BY <1>3 DEF SessionInv, StartInv, ReasonInv, AliveInv, on_client_connected,
                on_client_disconnected
  <2> QED
    BY <2>1, <2>2 DEF SessionInv
<1>4. CASE expire_disconnect_grace \/ on_client_message
  <2>1. TypeOK'
    BY <1>4 DEF SessionInv, TypeOK, expire_disconnect_grace, on_client_message, EndReasons
  <2>2. StartInv' /\ ReasonInv' /\ AliveInv'
    BY <1>4 DEF SessionInv, StartInv, ReasonInv, AliveInv, OwnReasons,
                expire_disconnect_grace, on_client_message
  <2> QED
    BY <2>1, <2>2 DEF SessionInv
<1>5. CASE on_client_ready
  <2>1. TypeOK'
    BY <1>5, SessionAssumption DEF SessionInv, TypeOK, StartInv, on_client_ready
  <2>2. StartInv' /\ ReasonInv' /\ AliveInv'
    BY <1>5 DEF SessionInv, TypeOK, StartInv, ReasonInv, AliveInv, on_client_ready
  <2> QED
    BY <2>1, <2>2 DEF SessionInv
<1> QED
  BY <1>1, <1>2, <1>3, <1>4, <1>5

\* The rest of a ready handler: the activation that counts is fresh.
LEMMA ReadyKeepsSessionInv ==
  ASSUME SessionInv, ClientReadyAnswered
  PROVE  SessionInv'
<1> USE DEF row, verdicts, client, Live, Fresh
<1>1. /\ asked > 0 /\ pc \in {"running", "leaving"} /\ asked' = asked - 1
      /\ UNCHANGED <<db, pc, raised, verdicts, readies, client, declined>>
  BY DEF ClientReadyAnswered
<1>2. CASE /\ db /\ Activation /\ acknowledge(status = "initializing")
           /\ beat' = IF activated' /\ beat = "none" THEN "asleep" ELSE beat
           /\ IF startupSent THEN UNCHANGED <<owed, writes>>
              ELSE owed' = owed + 1 /\ writes' = writes + 1
           /\ UNCHANGED faults
  <2>1. /\ status' \in Statuses /\ reason' = reason /\ (age' = 0 \/ age' = age)
        /\ status = "initializing" => status' = "active" /\ age' = 0
        /\ status # "initializing" => status' = status /\ age' = age
        /\ beat' \in Beats
    BY <1>2 DEF Activation, SessionInv, TypeOK, Statuses, Beats
  <2>2. TypeOK'
    BY <1>1, <1>2, <2>1, SessionAssumption DEF SessionInv, TypeOK, acknowledge
  <2>3. StartInv'
    BY <1>1, <1>2 DEF SessionInv, TypeOK, StartInv, acknowledge
  <2>4. Live' = Live
    BY <2>1 DEF Terminal
  <2>5. ReasonInv'
    BY <1>1, <2>1, <2>4 DEF SessionInv, ReasonInv
  <2>6. ASSUME activated', faults = 0 PROVE Live /\ Fresh'
    <3>1. beat' = IF beat = "none" THEN "asleep" ELSE beat
      BY <1>2, <2>6
    <3>2. activated \/ status = "initializing"
      BY <1>2, <2>6, Zenon DEF acknowledge
    <3>3. CASE activated
      <4>1. beat' = beat /\ (age' = 0 \/ age' = age)
        BY <2>1, <3>1, <3>3 DEF SessionInv, StartInv
      <4>2. Live /\ Fresh
        BY <1>1, <2>6, <3>3 DEF SessionInv, AliveInv
      <4> QED
        BY <4>1, <4>2
    <3>4. CASE ~activated
      <4>1. beat = "none" /\ status = "initializing"
        BY <1>1, <3>2, <3>4 DEF SessionInv, StartInv
      <4> QED
        BY <2>1, <3>1, <4>1 DEF Terminal
    <3> QED
      BY <3>3, <3>4
  <2>7. AliveInv'
    BY <1>1, <1>2, <2>4, <2>6 DEF SessionInv, AliveInv
  <2> QED
    BY <2>2, <2>3, <2>5, <2>7 DEF SessionInv
<1>3. CASE /\ db /\ faults < MaxFaults /\ Activation /\ faults' = faults + 1
           /\ UNCHANGED <<activated, startupSent, greetings, beat, owed, writes>>
  <2>1. status' \in Statuses /\ reason' = reason /\ (age' = 0 \/ age' = age)
    BY <1>3 DEF Activation, SessionInv, TypeOK, Statuses
  <2>2. TypeOK'
    BY <1>1, <1>3, <2>1, SessionAssumption DEF SessionInv, TypeOK
  <2>3. StartInv' /\ ReasonInv' /\ AliveInv'
    BY <1>1, <1>3 DEF SessionInv, TypeOK, StartInv, ReasonInv, AliveInv, Activation, Terminal
  <2> QED
    BY <2>2, <2>3 DEF SessionInv
<1>4. CASE ~db /\ UNCHANGED <<row, activated, startupSent, greetings, beat, owed, writes, faults>>
  <2>1. TypeOK'
    BY <1>1, <1>4, SessionAssumption DEF SessionInv, TypeOK
  <2>2. StartInv' /\ ReasonInv' /\ AliveInv'
    BY <1>1, <1>4 DEF SessionInv, TypeOK, StartInv, ReasonInv, AliveInv
  <2> QED
    BY <2>1, <2>2 DEF SessionInv
<1> QED
  BY <1>2, <1>3, <1>4 DEF ClientReadyAnswered

\* The steps of the pipeline.
LEMMA PipelineKeepsSessionInv ==
  ASSUME SessionInv,
         Speak \/ on_pipeline_error \/ RunReturns \/ RunCancelled \/ RunRaises
  PROVE  SessionInv'
<1> USE DEF row, verdicts, ready, client, lane, Live, Fresh
<1>1. CASE Speak
  <2>1. TypeOK'
    BY <1>1 DEF SessionInv, TypeOK, Speak
  <2>2. StartInv' /\ ReasonInv' /\ AliveInv'
    BY <1>1 DEF SessionInv, StartInv, ReasonInv, AliveInv, Speak
  <2> QED
    BY <2>1, <2>2 DEF SessionInv
<1>2. CASE on_pipeline_error
  <2>1. TypeOK'
    BY <1>2 DEF SessionInv, TypeOK, on_pipeline_error, Terminal, EndReasons
  <2>2. StartInv' /\ ReasonInv' /\ AliveInv'
    BY <1>2 DEF SessionInv, StartInv, ReasonInv, AliveInv, OwnReasons, on_pipeline_error
  <2> QED
    BY <2>1, <2>2 DEF SessionInv
<1>3. CASE RunReturns \/ RunCancelled \/ RunRaises
  <2>1. /\ pc = "running" /\ pc' = "leaving" /\ grace' = FALSE
        /\ UNCHANGED <<db, status, reason, age, activated, startupSent, greetings, asked,
                       readies, beat, here, graceExpired, userEnd, stopping, owed, writes,
                       declined, faults>>
    BY <1>3 DEF RunReturns, RunCancelled, RunRaises, Leave, leaving
  <2>2. /\ raised' = raised \/ raised' = TRUE
        /\ verdict' = verdict \/ verdict' \in {"completed", "cancelled", "failed"}
        /\ why' = why \/ why' \in {"worker_cancelled", "runner_exception"}
    BY <1>3 DEF RunReturns, RunCancelled, RunRaises
  <2>3. TypeOK'
    <3>1. raised' \in BOOLEAN /\ grace' \in BOOLEAN
      BY <2>1, <2>2 DEF SessionInv, TypeOK
    <3>2. pc' \in Places /\ verdict' \in Terminal /\ why' \in EndReasons
      BY <2>1, <2>2 DEF SessionInv, TypeOK, Places, Terminal, EndReasons
    <3> QED
      BY <2>1, <3>1, <3>2 DEF SessionInv, TypeOK
  <2>4. StartInv' /\ ReasonInv' /\ AliveInv'
    BY <2>1, <2>2 DEF SessionInv, StartInv, ReasonInv, AliveInv, OwnReasons
  <2> QED
    BY <2>3, <2>4 DEF SessionInv
<1> QED
  BY <1>1, <1>2, <1>3

\* The transaction that writes a terminal verdict, if the call has none.
LEMMA FinalizeDecides ==
  ASSUME SessionInv, NEW s \in Terminal, NEW r \in EndReasons, finalize_call(s, r)
  PROVE  /\ status' \in Terminal /\ reason' \in EndReasons /\ age' = age
         /\ Live => status' = s /\ reason' = r
         /\ ~Live => UNCHANGED <<status, reason>>
<1> QED
  BY DEF finalize_call, Live, row, SessionInv, TypeOK, ReasonInv, Terminal

\* The steps of teardown and rescue.
LEMMA TeardownKeepsSessionInv ==
  ASSUME SessionInv, Teardown
  PROVE  SessionInv'
<1> USE DEF row, verdicts, ready, client, lane, Fresh
<1>1. CASE mark_call_ending
  <2>1. /\ pc' = "draining" /\ pc = "leaving"
        /\ (status' = "ending" /\ age' = 0 /\ Live) \/ UNCHANGED <<status, age>>
        /\ UNCHANGED <<db, reason, raised, verdicts, ready, beat, client, lane, faults>>
    BY <1>1 DEF mark_call_ending
  <2>2. TypeOK'
    <3>1. status' \in Statuses /\ age' \in 0..(Stale + 1) /\ pc' \in Places
      BY <2>1, SessionAssumption DEF SessionInv, TypeOK, Statuses, Places
    <3> QED
      BY <2>1, <3>1 DEF SessionInv, TypeOK
  <2>3. Live' = Live
    BY <2>1 DEF Live, Terminal
  <2>4. StartInv' /\ ReasonInv' /\ AliveInv'
    BY <2>1, <2>3 DEF SessionInv, StartInv, ReasonInv, AliveInv
  <2> QED
    BY <2>2, <2>4 DEF SessionInv
<1>2. CASE wait_for_key
  <2>1. TypeOK'
    BY <1>2 DEF SessionInv, TypeOK, wait_for_key, Places
  <2>2. StartInv' /\ ReasonInv' /\ AliveInv'
    BY <1>2 DEF SessionInv, StartInv, ReasonInv, AliveInv, Live, wait_for_key
  <2> QED
    BY <2>1, <2>2 DEF SessionInv
<1>3. CASE Finalize
  <2>1. /\ pc = "finalizing" /\ pc' \in {"rescue", "over"} /\ beat' = "stopped"
        /\ raised' = raised \/ raised' = TRUE
        /\ UNCHANGED <<db, verdicts, ready, client, lane, faults>>
    BY <1>3 DEF Finalize
  <2>2. /\ age' = age
        /\ ~db => UNCHANGED <<status, reason>>
        /\ db => /\ status' \in Terminal /\ reason' \in EndReasons
                 /\ Live => reason' \in OwnReasons \cup {"client_not_ready"}
                 /\ ~Live => UNCHANGED <<status, reason>>
    <3>1. CASE ~db
      BY <1>3, <3>1 DEF Finalize
    <3>2. CASE db /\ ~activated /\ verdict = "completed"
      <4>1. finalize_call("failed", "client_not_ready")
        BY <1>3, <3>2 DEF Finalize
      <4>2. "failed" \in Terminal /\ "client_not_ready" \in EndReasons
        BY DEF Terminal, EndReasons
      <4> QED
        BY <3>2, <4>1, <4>2, FinalizeDecides
    <3>3. CASE db /\ ~(~activated /\ verdict = "completed")
      <4>1. finalize_call(verdict, why)
        BY <1>3, <3>3 DEF Finalize
      <4>2. verdict \in Terminal /\ why \in EndReasons /\ why \in OwnReasons
        BY DEF SessionInv, TypeOK, ReasonInv
      <4> QED
        BY <3>3, <4>1, <4>2, FinalizeDecides
    <3> QED
      BY <3>1, <3>2, <3>3
  <2>3. TypeOK'
    BY <2>1, <2>2 DEF SessionInv, TypeOK, Statuses, Places, Beats
  <2>4. StartInv'
    BY <2>1 DEF SessionInv, StartInv
  <2>5. ReasonInv'
    BY <2>1, <2>2 DEF SessionInv, ReasonInv, Live, OwnReasons, EndReasons
  <2>6. AliveInv'
    BY <2>1, <2>2 DEF SessionInv, AliveInv, Live, OwnReasons
  <2> QED
    BY <2>3, <2>4, <2>5, <2>6 DEF SessionInv
<1>4. CASE fail_nonterminal_runner_call
  <2>1. /\ pc = "rescue" /\ pc' = "over"
        /\ UNCHANGED <<db, raised, verdicts, ready, beat, client, lane, faults>>
    BY <1>4 DEF fail_nonterminal_runner_call
  <2>2. /\ age' = age
        /\ ~db => UNCHANGED <<status, reason>>
        /\ db => /\ status' \in Terminal /\ reason' \in EndReasons
                 /\ ~Live => UNCHANGED <<status, reason>>
    <3>1. CASE ~db
      BY <1>4, <3>1 DEF fail_nonterminal_runner_call
    <3>2. CASE db
      <4>1. finalize_call("failed", "pipeline_startup_failed")
        BY <1>4, <3>2 DEF fail_nonterminal_runner_call
      <4>2. "failed" \in Terminal /\ "pipeline_startup_failed" \in EndReasons
        BY DEF Terminal, EndReasons
      <4> QED
        BY <3>2, <4>1, <4>2, FinalizeDecides
    <3> QED
      BY <3>1, <3>2
  <2>3. TypeOK'
    BY <2>1, <2>2 DEF SessionInv, TypeOK, Statuses, Places
  <2>4. StartInv'
    BY <2>1 DEF SessionInv, StartInv
  <2>5. ReasonInv'
    BY <2>1, <2>2 DEF SessionInv, ReasonInv, Live, EndReasons
  <2>6. AliveInv'
    BY <2>1, <2>2 DEF SessionInv, AliveInv, Live
  <2> QED
    BY <2>3, <2>4, <2>5, <2>6 DEF SessionInv
<1> QED
  BY <1>1, <1>2, <1>3, <1>4 DEF Teardown

\* The steps of heartbeat, watchdog, persistence lane and environment.  The watchdog
\* finds no activated call of a running session: its age is at most one.
LEMMA EnvironmentKeepsSessionInv ==
  ASSUME SessionInv,
         \/ record_voice_latency \/ WriteRecord \/ Heartbeat \/ abandon_stale_calls
         \/ Tick \/ Outage \/ Recovery \/ ProcessDies \/ TeardownCancelled
  PROVE  SessionInv'
<1> USE DEF row, verdicts, ready, client, lane
<1>1. CASE WriteRecord
  <2>1. /\ owed > 0 /\ owed' = owed - 1
        /\ \/ age' = 0 /\ declined' = declined
           \/ ~Live /\ age' = age /\ declined' = declined + 1
        /\ UNCHANGED <<db, status, reason, pc, raised, verdicts, ready, beat, client, writes,
                       faults>>
    BY <1>1 DEF WriteRecord
  <2>2. TypeOK'
    BY <2>1, SessionAssumption DEF SessionInv, TypeOK
  <2>3. StartInv' /\ ReasonInv' /\ AliveInv'
    BY <2>1 DEF SessionInv, StartInv, ReasonInv, AliveInv, Live, Fresh
  <2> QED
    BY <2>2, <2>3 DEF SessionInv
<1>2. CASE Heartbeat
  <2>1. /\ beat = "due" /\ beat' \in {"asleep", "stopped"} /\ (age' = 0 \/ age' = age)
        /\ db /\ Live => age' = 0 /\ beat' = "asleep"
        /\ UNCHANGED <<db, status, reason, pc, raised, verdicts, ready, client, lane, faults>>
    BY <1>2 DEF Heartbeat
  <2>2. TypeOK'
    BY <2>1, SessionAssumption DEF SessionInv, TypeOK, Beats
  <2>3. StartInv' /\ ReasonInv'
    BY <2>1 DEF SessionInv, StartInv, ReasonInv, Live
  <2>4. AliveInv'
    BY <2>1 DEF SessionInv, AliveInv, Live, Fresh
  <2> QED
    BY <2>2, <2>3, <2>4 DEF SessionInv
<1>3. CASE abandon_stale_calls
  <2>1. /\ Live /\ age > Stale /\ status' = "abandoned" /\ reason' = "worker_lost"
        /\ UNCHANGED <<db, age, pc, raised, verdicts, ready, beat, client, lane, faults>>
    BY <1>3 DEF abandon_stale_calls
  <2>2. TypeOK'
    BY <2>1 DEF SessionInv, TypeOK, Statuses, Terminal, EndReasons
  <2>3. StartInv' /\ ReasonInv'
    BY <2>1 DEF SessionInv, StartInv, ReasonInv, Live, Terminal
  <2>4. ASSUME faults = 0 PROVE ~activated
    <3>1. age > 1
      BY <2>1, SessionAssumption DEF SessionInv, TypeOK
    <3> QED
      BY <2>1, <2>4, <3>1 DEF SessionInv, TypeOK, AliveInv, Fresh
  <2>5. AliveInv'
    BY <2>1, <2>4 DEF SessionInv, AliveInv
  <2> QED
    BY <2>2, <2>3, <2>5 DEF SessionInv
<1>4. CASE Tick
  <2>1. /\ beat # "due" /\ beat' = IF beat = "asleep" THEN "due" ELSE beat
        /\ age' = IF age > Stale THEN age ELSE age + 1
        /\ UNCHANGED <<db, status, reason, pc, raised, verdicts, ready, client, lane, faults>>
    BY <1>4 DEF Tick
  <2>2. age' \in 0..(Stale + 1) /\ beat' \in Beats
    BY <2>1, SessionAssumption DEF SessionInv, TypeOK, Beats
  <2>3. TypeOK'
    BY <2>1, <2>2 DEF SessionInv, TypeOK
  <2>4. StartInv' /\ ReasonInv'
    BY <2>1 DEF SessionInv, StartInv, ReasonInv, Live
  <2>5. ASSUME Fresh PROVE Fresh'
    BY <2>1, <2>5, SessionAssumption DEF Fresh
  <2>6. AliveInv'
    BY <2>1, <2>5 DEF SessionInv, AliveInv, Live
  <2> QED
    BY <2>3, <2>4, <2>6 DEF SessionInv
<1>5. CASE Outage \/ Recovery
  <2>1. TypeOK'
    <3>1. /\ db' \in {TRUE, FALSE}
          /\ UNCHANGED <<row, pc, raised, verdicts, ready, beat, client, lane>>
      BY <1>5 DEF Outage, Recovery
    <3>2. faults' \in 0..MaxFaults
      BY <1>5, SessionAssumption DEF Outage, Recovery, SessionInv, TypeOK
    <3>3. {db', raised, activated, startupSent, here, grace, graceExpired, userEnd, stopping}
            \subseteq BOOLEAN
      BY <3>1 DEF SessionInv, TypeOK
    <3> QED
      BY <3>1, <3>2, <3>3 DEF SessionInv, TypeOK
  <2>2. StartInv' /\ ReasonInv' /\ AliveInv'
    BY <1>5 DEF SessionInv, TypeOK, StartInv, ReasonInv, AliveInv, Live, Fresh, Outage,
                Recovery
  <2> QED
    BY <2>1, <2>2 DEF SessionInv
<1>6. CASE TeardownCancelled
  <2>1. TypeOK'
    <3>1. /\ pc' = "rescue" /\ beat' = "stopped" /\ asked' = 0 /\ raised' = TRUE
          /\ UNCHANGED <<db, row, verdicts, activated, startupSent, greetings, readies,
                         client, lane>>
      BY <1>6 DEF TeardownCancelled
    <3>2. faults' \in 0..MaxFaults /\ 0 \in 0..MaxReady
      BY <1>6, SessionAssumption DEF TeardownCancelled, SessionInv, TypeOK
    <3>3. {db, TRUE, activated, startupSent, here, grace, graceExpired, userEnd, stopping}
            \subseteq BOOLEAN
      BY DEF SessionInv, TypeOK
    <3> QED
      BY <3>1, <3>2, <3>3 DEF SessionInv, TypeOK, Places, Beats
  <2>2. StartInv' /\ ReasonInv' /\ AliveInv'
    BY <1>6 DEF SessionInv, TypeOK, StartInv, ReasonInv, AliveInv, Live, TeardownCancelled
  <2> QED
    BY <2>1, <2>2 DEF SessionInv
<1>7. CASE record_voice_latency
  <2>1. TypeOK'
    BY <1>7 DEF SessionInv, TypeOK, record_voice_latency
  <2>2. StartInv' /\ ReasonInv' /\ AliveInv'
    BY <1>7 DEF SessionInv, StartInv, ReasonInv, AliveInv, Live, Fresh,
                record_voice_latency
  <2> QED
    BY <2>1, <2>2 DEF SessionInv
<1>8. CASE ProcessDies
  <2>1. TypeOK'
    <3>1. /\ pc' = "over" /\ beat' = "stopped" /\ asked' = 0 /\ grace' = FALSE
          /\ UNCHANGED <<db, row, raised, verdicts, activated, startupSent, greetings,
                         readies, here, graceExpired, userEnd, stopping, lane>>
      BY <1>8 DEF ProcessDies
    <3>2. faults' \in 0..MaxFaults /\ 0 \in 0..MaxReady
      BY <1>8, SessionAssumption DEF ProcessDies, SessionInv, TypeOK
    <3>3. {db, raised, activated, startupSent, here, FALSE, graceExpired, userEnd, stopping}
            \subseteq BOOLEAN
      BY DEF SessionInv, TypeOK
    <3> QED
      BY <3>1, <3>2, <3>3 DEF SessionInv, TypeOK, Places, Beats
  <2>2. StartInv' /\ ReasonInv' /\ AliveInv'
    BY <1>8 DEF SessionInv, TypeOK, StartInv, ReasonInv, AliveInv, Live, ProcessDies
  <2> QED
    BY <2>1, <2>2 DEF SessionInv
<1> QED
  BY <1>1, <1>2, <1>3, <1>4, <1>5, <1>6, <1>7, <1>8

\* Every step of the specification, stuttering included.
LEMMA NextKeepsSessionInv == SessionInv /\ [Next]_vars => SessionInv'
<1> SUFFICES ASSUME SessionInv, [Next]_vars PROVE SessionInv'
  OBVIOUS
<1>1. CASE UNCHANGED vars
  BY <1>1 DEF vars, row, verdicts, ready, client, lane, SessionInv, TypeOK, StartInv,
              ReasonInv, AliveInv, Live, Fresh
<1>2. CASE Next
  BY <1>2, ClientKeepsSessionInv, ReadyKeepsSessionInv, PipelineKeepsSessionInv,
     TeardownKeepsSessionInv, EnvironmentKeepsSessionInv DEF Next
<1> QED
  BY <1>1, <1>2

\* The invariant holds in every reachable state.
THEOREM SessionAlwaysSound == Spec => []SessionInv
<1> QED
  BY InitSessionInv, NextKeepsSessionInv, PTL DEF Spec

---------------------------------------------------------------------------
\* The state has its type.
THEOREM SessionTypeCorrect == Spec => []TypeOK
<1>1. SessionInv => TypeOK
  BY DEF SessionInv
<1> QED
  BY <1>1, SessionAlwaysSound, PTL

\* A call greets at most once, and one that its session knows to be active has greeted
\* and has its heartbeat.
THEOREM CallStartsOnce == Spec => []StartedOnce
<1>1. SessionInv => StartedOnce
  BY DEF SessionInv, StartInv, StartedOnce
<1> QED
  BY <1>1, SessionAlwaysSound, PTL

\* Without a fault an activated call is neither abandoned by the watchdog nor recorded as
\* a failed start-up: it is touched in every tick until its session has ended it.
THEOREM FaultlessCallEndsClean == Spec => []CleanEnd
<1>1. SessionInv => CleanEnd
  BY DEF SessionInv, TypeOK, ReasonInv, AliveInv, CleanEnd
<1> QED
  BY <1>1, SessionAlwaysSound, PTL

---------------------------------------------------------------------------
\* The initial row is the initial call.
LEMMA InitRefines == Init => Lifecycle!Init
<1> QED
  BY DEF Init, Lifecycle!Init

\* Each transaction on the row activates, closes or terminates the call, or leaves it.
LEMMA StepRefines ==
  ASSUME SessionInv, [Next]_vars
  PROVE  [Lifecycle!Next]_Lifecycle!vars
<1> USE DEF Lifecycle!Next, Lifecycle!vars
<1>1. CASE UNCHANGED <<status, reason>>
  BY <1>1
<1>2. ASSUME NEW s \in Terminal, NEW r \in EndReasons, finalize_call(s, r)
      PROVE  [Lifecycle!Next]_Lifecycle!vars
  <2>1. /\ status' \in Terminal /\ reason' \in EndReasons
        /\ ~Live => UNCHANGED <<status, reason>>
    BY <1>2, FinalizeDecides
  <2> QED
    BY <2>1 DEF Live, Lifecycle!Terminate, Terminal, Lifecycle!Terminal
<1>3. CASE ProviderFails
  <2>1. "failed" \in Terminal /\ "provider_startup_failed" \in EndReasons
    BY DEF Terminal, EndReasons
  <2> QED
    BY <1>1, <1>2, <1>3, <2>1 DEF ProviderFails, row
<1>4. CASE ClientReadyAnswered
  BY <1>1, <1>4 DEF ClientReadyAnswered, Activation, row, Lifecycle!Activate
<1>5. CASE mark_call_ending
  <2>1. \/ status' = "ending" /\ Live /\ status # "ending" /\ reason' = reason
        \/ UNCHANGED <<status, reason>>
    BY <1>5 DEF mark_call_ending
  <2>2. Live /\ status # "ending" => status \in {"initializing", "active"}
    BY DEF Live, SessionInv, TypeOK, Statuses
  <2> QED
    BY <1>1, <2>1, <2>2 DEF Lifecycle!Close
<1>6. CASE Finalize
  <2>1. "failed" \in Terminal /\ "client_not_ready" \in EndReasons
    BY DEF Terminal, EndReasons
  <2>2. verdict \in Terminal /\ why \in EndReasons
    BY DEF SessionInv, TypeOK
  <2>3. \/ finalize_call("failed", "client_not_ready")
        \/ finalize_call(verdict, why)
        \/ UNCHANGED <<status, reason>>
    BY <1>6 DEF Finalize, row
  <2> QED
    BY <1>1, <1>2, <2>1, <2>2, <2>3
<1>7. CASE fail_nonterminal_runner_call
  <2>1. "failed" \in Terminal /\ "pipeline_startup_failed" \in EndReasons
    BY DEF Terminal, EndReasons
  <2> QED
    BY <1>1, <1>2, <1>7, <2>1 DEF fail_nonterminal_runner_call, row
<1>8. CASE abandon_stale_calls
  <2>1. /\ status \notin Lifecycle!Terminal /\ status' \in Lifecycle!Terminal
        /\ reason' \in EndReasons
    BY <1>8 DEF abandon_stale_calls, Live, Terminal, Lifecycle!Terminal, EndReasons
  <2> QED
    BY <2>1 DEF Lifecycle!Terminate
<1>9. CASE \/ AssemblyFails \/ snapshot_call_configuration
           \/ on_client_connected \/ on_client_disconnected \/ expire_disconnect_grace
           \/ on_client_message \/ on_client_ready
           \/ Speak \/ on_pipeline_error \/ RunReturns \/ RunCancelled \/ RunRaises
           \/ wait_for_key \/ TeardownCancelled
           \/ record_voice_latency \/ WriteRecord \/ Heartbeat
           \/ Tick \/ Outage \/ Recovery \/ ProcessDies
  <2>1. UNCHANGED <<status, reason>>
    BY <1>9 DEF row, AssemblyFails, snapshot_call_configuration, on_client_connected,
       on_client_disconnected, expire_disconnect_grace, on_client_message,
       on_client_ready, Speak, on_pipeline_error, RunReturns, RunCancelled, RunRaises,
       leaving, wait_for_key, TeardownCancelled, record_voice_latency, WriteRecord,
       Heartbeat, Tick, Outage, Recovery, ProcessDies
  <2> QED
    BY <1>1, <2>1
<1>10. CASE UNCHANGED vars
  BY <1>1, <1>10 DEF vars, row
<1> QED
  BY <1>3, <1>4, <1>5, <1>6, <1>7, <1>8, <1>9, <1>10 DEF Next, Teardown

\* Session, client, watchdog and rescue together implement the lifecycle: forward only,
\* and the first terminal verdict stands.
THEOREM SessionImplementsLifecycle == Spec => SessionIsCallLifecycle
<1>1. SessionInv /\ [Next]_vars => [Lifecycle!Next]_Lifecycle!vars
  BY StepRefines
<1>2. Spec => Lifecycle!Init /\ [][Lifecycle!Next]_Lifecycle!vars
  BY <1>1, InitRefines, SessionAlwaysSound, PTL DEF Spec
<1> QED
  BY <1>2 DEF SessionIsCallLifecycle, Lifecycle!Spec
====
