---- MODULE TurnGateProofs ----
(***************************************************************************)
(* For any number of sessions, turns and jobs: no key of the realtime gate *)
(* leaks, the idle event agrees with it, and enrichment gives way to live  *)
(* turns.                                                                  *)
(***************************************************************************)
EXTENDS TurnGate, SequenceTheorems, TLAPS

\* The inductive invariant.  NoLeakedKey is what lets every end() the code calls,
\* which names only the current turn, be the end the gate is waiting for.
GateInv == TypeOK /\ NoLeakedKey /\ IdleEventAgrees /\ EnrichmentYields

\* The part of TypeOK about the gate and the worker's place.
GateTypes ==
  /\ gate \subseteq Sessions \X (0..MaxTurns)
  /\ idle \in BOOLEAN
  /\ pc \in WorkerStates

\* No session holds the gate, the event is set and the worker waits for a job.
LEMMA InitGateInv == Init => GateInv
<1> SUFFICES ASSUME Init PROVE GateInv
  OBVIOUS
<1>1. TypeOK
  <2>1. {active, speechOpen, identityOpen, llmSeen, audioSeen, cancelled,
      fillerSpoken, closed, llmRun, tool} \subseteq [Sessions -> BOOLEAN]
    BY DEF Init
  <2> QED
    BY <2>1, TurnGateAssumption DEF Init, TypeOK, WorkerStates, Outcomes, Contexts
<1>2. NoLeakedKey
  BY DEF Init, NoLeakedKey
<1>3. IdleEventAgrees
  BY DEF Init, IdleEventAgrees
<1>4. EnrichmentYields
  BY DEF Init, EnrichmentYields
<1> QED
  BY <1>1, <1>2, <1>3, <1>4 DEF GateInv

\* RealtimeTurnGate.end of a session's current key takes the session out of the gate.
LEMMA EndOfCurrentKey ==
  ASSUME GateInv, NEW s \in Sessions, end(Key(s))
  PROVE  /\ GateTypes' /\ IdleEventAgrees' /\ EnrichmentYields'
         /\ gate' \subseteq gate
         /\ \A k \in gate' : k[1] # s
<1>1. gate' \subseteq gate /\ GateTypes'
  BY DEF end, EndedPc, GateInv, TypeOK, GateTypes, WorkerStates
<1>2. IdleEventAgrees'
  BY <1>1 DEF end, GateInv, IdleEventAgrees, TypeOK
<1>3. EnrichmentYields'
  BY <1>1 DEF end, EndedPc, GateInv, EnrichmentYields
<1>4. \A k \in gate' : k[1] # s
  BY <1>1 DEF end, GateInv, NoLeakedKey
<1> QED
  BY <1>1, <1>2, <1>3, <1>4

\* A step that only takes sessions out of the gate keeps NoLeakedKey when it
\* leaves the turn identity of the remaining ones alone.
LEMMA RemainingKeysKept ==
  ASSUME GateInv, NEW s \in Sessions,
         gate' \subseteq gate, \A k \in gate' : k[1] # s,
         \A r \in Sessions \ {s} : /\ turnId'[r] = turnId[r]
                                   /\ identityOpen'[r] = identityOpen[r]
                                   /\ closed'[r] = closed[r]
  PROVE  NoLeakedKey'
<1>1. \A k \in gate' : k[1] \in Sessions \ {s}
  BY DEF GateInv, TypeOK
<1> QED
  BY <1>1 DEF GateInv, NoLeakedKey, Key

\* A step that leaves the gate, the worker and the turn identities alone.
LEMMA GateUntouched ==
  ASSUME GateInv, gateUnchanged, UNCHANGED <<turnId, closed>>,
         \A r \in Sessions : identityOpen'[r] = identityOpen[r]
  PROVE  GateTypes' /\ NoLeakedKey' /\ IdleEventAgrees' /\ EnrichmentYields'
BY DEF gateUnchanged, GateInv, TypeOK, GateTypes, NoLeakedKey, Key,
       IdleEventAgrees, EnrichmentYields

\* Speech opens a new turn after ending the key of the old one.
LEMMA OpenSpeechKeepsGateInv ==
  ASSUME GateInv, NEW s \in Sessions, NEW open \in BOOLEAN, openSpeech(s, open),
         UNCHANGED <<closed, replyVars, workVars>>
  PROVE  GateInv'
<1>1. end(Key(s))
  BY DEF openSpeech
<1>2. TypeOK'
  BY <1>1, EndOfCurrentKey, TurnGateAssumption
  DEF openSpeech, GateInv, GateTypes, TypeOK, replyVars, workVars
<1>3. NoLeakedKey'
  BY <1>1, EndOfCurrentKey, RemainingKeysKept DEF openSpeech, GateInv, TypeOK
<1> QED
  BY <1>1, <1>2, <1>3, EndOfCurrentKey DEF GateInv

\* Finishing a turn ends its key and closes its identity together.
LEMMA FinishKeeps ==
  ASSUME GateInv, NEW s \in Sessions, NEW cancel \in BOOLEAN, finish(s, cancel),
         UNCHANGED closed
  PROVE  /\ GateTypes' /\ NoLeakedKey' /\ IdleEventAgrees' /\ EnrichmentYields'
         /\ turnId' \in [Sessions -> 0..MaxTurns]
         /\ {active', speechOpen', identityOpen', llmSeen', audioSeen', cancelled',
             fillerSpoken', closed'} \subseteq [Sessions -> BOOLEAN]
<1>1. end(Key(s))
  BY DEF finish
<1>2. NoLeakedKey'
  BY <1>1, EndOfCurrentKey, RemainingKeysKept DEF finish, GateInv, TypeOK
<1>3. /\ turnId' \in [Sessions -> 0..MaxTurns]
      /\ {active', speechOpen', identityOpen', llmSeen', audioSeen', cancelled',
          fillerSpoken', closed'} \subseteq [Sessions -> BOOLEAN]
  BY DEF finish, GateInv, TypeOK
<1> QED
  BY <1>1, <1>2, <1>3, EndOfCurrentKey

\* A context frame either joins the running turn, or begins the new one after it
\* has ended the one it supersedes.
LEMMA ContextKeepsGateInv ==
  ASSUME GateInv, NEW s \in Sessions, ~closed[s], LLMContext(s),
         UNCHANGED <<closed, workVars>>
  PROVE  GateInv'
<1>1. CASE gateUnchanged /\ UNCHANGED turnVars
  <2>1. TypeOK'
    BY <1>1 DEF LLMContext, gateUnchanged, turnVars, workVars, GateInv, TypeOK
  <2> QED
    BY <1>1, <2>1, GateUntouched DEF turnVars, GateInv
<1>2. CASE ~(gateUnchanged /\ UNCHANGED turnVars)
  <2> DEFINE opensIdentity == active[s] \/ ~identityOpen[s]
             turn == turnId[s] + (IF opensIdentity THEN 1 ELSE 0)
             old == IF active[s] THEN {Key(s)} ELSE {}
  <2>1. /\ turn \in 0..MaxTurns
        /\ turnId' = [turnId EXCEPT ![s] = turn]
        /\ identityOpen' = [identityOpen EXCEPT ![s] = TRUE]
        /\ endThenBegin(old, <<s, turn>>)
    BY <1>2, TurnGateAssumption DEF LLMContext, start_turn, GateInv, TypeOK
  <2>2. gate' = (gate \ old) \cup {<<s, turn>>} /\ GateTypes' /\ idle' = FALSE
    <3>1. gate' = (gate \ old) \cup {<<s, turn>>} /\ idle' = FALSE
      BY <2>1 DEF endThenBegin
    <3>2. pc' \in WorkerStates
      BY <2>1 DEF endThenBegin, BegunPc, EndedPc, GateInv, TypeOK, WorkerStates
    <3>3. <<s, turn>> \in Sessions \X (0..MaxTurns)
      BY <2>1
    <3> HIDE DEF turn, old
    <3>4. gate' \subseteq Sessions \X (0..MaxTurns)
      BY <3>1, <3>3 DEF GateInv, TypeOK
    <3> QED
      BY <3>1, <3>2, <3>4 DEF GateTypes
  <2>3. TypeOK'
    <3>1. {active', speechOpen', identityOpen', llmSeen', audioSeen', cancelled',
           fillerSpoken', llmRun'} \subseteq [Sessions -> BOOLEAN]
      <4>1. /\ active' = [active EXCEPT ![s] = TRUE]
            /\ speechOpen' = [speechOpen EXCEPT ![s] = @ /\ ~active[s]]
            /\ llmSeen' = [llmSeen EXCEPT ![s] = FALSE]
            /\ audioSeen' = [audioSeen EXCEPT ![s] = FALSE]
            /\ fillerSpoken' = [fillerSpoken EXCEPT ![s] = FALSE]
            /\ cancelled' = [cancelled EXCEPT ![s] = FALSE]
            /\ llmRun' = [llmRun EXCEPT ![s] = TRUE]
        BY <1>2 DEF LLMContext, start_turn
      <4> QED
        BY <2>1, <4>1 DEF GateInv, TypeOK
    <3>2. /\ turnId' \in [Sessions -> 0..MaxTurns]
          /\ replyTurn' \in [Sessions -> 0..MaxTurns]
      BY <2>1 DEF LLMContext, GateInv, TypeOK
    <3>3. /\ identityOpen' \in [Sessions -> BOOLEAN]
          /\ UNCHANGED <<tool, audio, closed, workVars>>
      BY <1>2 DEF LLMContext, start_turn, GateInv, TypeOK
    <3> QED
      BY <2>2, <3>1, <3>2, <3>3, SMTT(30) DEF workVars, GateInv, TypeOK, GateTypes
  <2>4. NoLeakedKey'
    <3>1. \A k \in gate \ old : k[1] = s => ~active[s] /\ identityOpen[s]
      BY DEF GateInv, NoLeakedKey, TypeOK
    <3>2. \A k \in gate \ old : k[1] = s => turn = turnId[s]
      BY <3>1 DEF GateInv, TypeOK
    <3>3. \A k \in gate \ old : k[1] \in Sessions /\ k = Key(k[1])' /\ identityOpen'[k[1]]
      BY <2>1, <3>2 DEF GateInv, NoLeakedKey, Key, TypeOK
    <3>4. <<s, turn>> = Key(s)' /\ identityOpen'[s]
      BY <2>1 DEF Key, GateInv, TypeOK
    <3> QED
      BY <2>2, <3>3, <3>4 DEF NoLeakedKey, GateInv, Key
  <2>5. IdleEventAgrees' /\ EnrichmentYields'
    BY <2>1, <2>2 DEF endThenBegin, BegunPc, IdleEventAgrees, EnrichmentYields
  <2> QED
    BY <2>3, <2>4, <2>5 DEF GateInv
<1> QED
  BY <1>1, <1>2

\* The frames of a live session keep the invariant.
LEMMA FrameKeepsGateInv ==
  ASSUME GateInv, NEW s \in Sessions, ~closed[s], Frame(s), UNCHANGED <<closed, workVars>>
  PROVE  GateInv'
<1>1. CASE VADUserStartedSpeaking(s)
  BY <1>1, OpenSpeechKeepsGateInv DEF VADUserStartedSpeaking, mark_user_started
<1>2. CASE UserStoppedSpeaking(s)
  <2>1. CASE openSpeech(s, FALSE)
    BY <1>2, <2>1, OpenSpeechKeepsGateInv DEF UserStoppedSpeaking
  <2>2. CASE ~openSpeech(s, FALSE)
    <3>1. /\ gateUnchanged
          /\ UNCHANGED <<turnId, active, identityOpen, llmSeen, audioSeen, cancelled,
                         fillerSpoken, replyVars>>
          /\ speechOpen' = [speechOpen EXCEPT ![s] = FALSE]
      BY <1>2, <2>2 DEF UserStoppedSpeaking, mark_user_stopped
    <3>2. TypeOK'
      BY <3>1 DEF gateUnchanged, replyVars, workVars, GateInv, TypeOK
    <3> QED
      BY <3>1, <3>2, GateUntouched DEF GateInv
  <2> QED
    BY <2>1, <2>2
<1>3. CASE Transcription(s)
  <2>1. TypeOK'
    BY <1>3, TurnGateAssumption
    DEF Transcription, record_final_stt_fragment, gateUnchanged, replyVars, workVars,
        GateInv, TypeOK
  <2>2. IdleEventAgrees' /\ EnrichmentYields'
    BY <1>3 DEF Transcription, record_final_stt_fragment, gateUnchanged, GateInv,
                IdleEventAgrees, EnrichmentYields
  <2>3. NoLeakedKey'
    <3>1. \A k \in gate : k[1] # s
      BY <1>3 DEF Transcription, record_final_stt_fragment, GateInv, NoLeakedKey
    <3> QED
      BY <1>3, <3>1, RemainingKeysKept
      DEF Transcription, record_final_stt_fragment, gateUnchanged, GateInv, TypeOK
  <2> QED
    BY <2>1, <2>2, <2>3 DEF GateInv
<1>4. CASE LLMContext(s)
  BY <1>4, ContextKeepsGateInv
<1>5. CASE FunctionCallInProgress(s) \/ ToolFiller(s) \/ FunctionCallResult(s)
           \/ LLMText(s) \/ TTSAudio(s)
  <2>1. /\ gateUnchanged /\ UNCHANGED <<turnId, identityOpen, active, speechOpen, cancelled,
                                        replyTurn>>
        /\ (llmSeen' = llmSeen \/ llmSeen' = [llmSeen EXCEPT ![s] = TRUE])
        /\ (audioSeen' = audioSeen \/ audioSeen' = [audioSeen EXCEPT ![s] = TRUE])
        /\ (fillerSpoken' = fillerSpoken \/ fillerSpoken' = [fillerSpoken EXCEPT ![s] = TRUE])
        /\ (llmRun' = llmRun \/ llmRun' = [llmRun EXCEPT ![s] = TRUE])
        /\ tool' = tool \/ \E b \in BOOLEAN : tool' = [tool EXCEPT ![s] = b]
        /\ audio' = audio \/ \E c \in Contexts : audio' = [audio EXCEPT ![s] = @ \cup {c}]
    BY <1>5 DEF FunctionCallInProgress, ToolFiller, FunctionCallResult, LLMText, TTSAudio,
                turnVars, replyVars, Contexts
  <2>2. {llmSeen', audioSeen', fillerSpoken', llmRun', tool'} \subseteq [Sessions -> BOOLEAN]
    <3>1. /\ llmSeen \in [Sessions -> BOOLEAN] /\ audioSeen \in [Sessions -> BOOLEAN]
          /\ fillerSpoken \in [Sessions -> BOOLEAN] /\ llmRun \in [Sessions -> BOOLEAN]
          /\ tool \in [Sessions -> BOOLEAN]
      BY DEF GateInv, TypeOK
    <3>2. llmSeen' \in [Sessions -> BOOLEAN] /\ audioSeen' \in [Sessions -> BOOLEAN]
      BY <2>1, <3>1
    <3>3. fillerSpoken' \in [Sessions -> BOOLEAN] /\ llmRun' \in [Sessions -> BOOLEAN]
      BY <2>1, <3>1
    <3>4. tool' \in [Sessions -> BOOLEAN]
      BY <2>1, <3>1
    <3> QED
      BY <3>2, <3>3, <3>4
  <2>3. audio' \in [Sessions -> SUBSET Contexts]
    <3>1. audio \in [Sessions -> SUBSET Contexts]
      BY DEF GateInv, TypeOK
    <3> QED
      BY <2>1, <3>1
  <2>4. gateUnchanged /\ UNCHANGED <<turnId, identityOpen, active, speechOpen, cancelled,
                                     replyTurn>>
    BY <2>1
  <2>5. TypeOK'
    BY <2>2, <2>3, <2>4 DEF gateUnchanged, workVars, GateInv, TypeOK
  <2>6. NoLeakedKey' /\ IdleEventAgrees' /\ EnrichmentYields'
    BY <2>4, GateUntouched
  <2> QED
    BY <2>5, <2>6 DEF GateInv
<1>6. CASE LLMFullResponseEnd(s)
  <2> USE DEF LLMFullResponseEnd, finish_response
  <2>1. TypeOK'
    <3>1. {active', speechOpen', llmRun'} \subseteq [Sessions -> BOOLEAN]
      BY <1>6 DEF GateInv, TypeOK
    <3>2. UNCHANGED <<gate, idle, pc, turnId, identityOpen, llmSeen, audioSeen, cancelled,
                      fillerSpoken, closed, tool, audio, replyTurn, queue, item, outcome>>
      BY <1>6 DEF gateUnchanged, workVars
    <3> QED
      BY <3>1, <3>2 DEF GateInv, TypeOK
  <2> QED
    BY <1>6, <2>1, GateUntouched DEF GateInv
<1>7. CASE TTSStopped(s)
  <2>1. audio' \in [Sessions -> SUBSET Contexts] /\ UNCHANGED <<llmRun, tool, replyTurn>>
    BY <1>7 DEF TTSStopped, GateInv, TypeOK
  <2>2. CASE finish(s, FALSE)
    <3>1. TypeOK'
      <4>1. /\ GateTypes'
            /\ {active', speechOpen', identityOpen', cancelled'} \subseteq [Sessions -> BOOLEAN]
        BY <2>2, FinishKeeps
      <4>2. UNCHANGED <<llmSeen, audioSeen, fillerSpoken, closed, turnId, queue, item, outcome>>
        BY <2>2 DEF finish, workVars
      <4> QED
        BY <2>1, <4>1, <4>2 DEF GateInv, GateTypes, TypeOK
    <3>2. NoLeakedKey' /\ IdleEventAgrees' /\ EnrichmentYields'
      BY <2>2, FinishKeeps
    <3> QED
      BY <3>1, <3>2 DEF GateInv
  <2>3. CASE gateUnchanged /\ UNCHANGED turnVars
    <3>1. TypeOK'
      BY <2>1, <2>3 DEF gateUnchanged, turnVars, workVars, GateInv, TypeOK
    <3> QED
      BY <2>3, <3>1, GateUntouched DEF turnVars, GateInv
  <2> QED
    BY <1>7, <2>2, <2>3 DEF TTSStopped
<1>8. CASE Interruption(s)
  <2>1. /\ audio' \in [Sessions -> SUBSET Contexts]
        /\ llmRun' \in [Sessions -> BOOLEAN] /\ tool' \in [Sessions -> BOOLEAN]
        /\ UNCHANGED replyTurn
    BY <1>8 DEF Interruption, GateInv, TypeOK
  <2>2. CASE finish(s, TRUE)
    <3>1. TypeOK'
      <4>1. /\ GateTypes'
            /\ {active', speechOpen', identityOpen', cancelled'} \subseteq [Sessions -> BOOLEAN]
        BY <2>2, FinishKeeps
      <4>2. UNCHANGED <<llmSeen, audioSeen, fillerSpoken, closed, turnId, queue, item, outcome>>
        BY <2>2 DEF finish, workVars
      <4> QED
        BY <2>1, <4>1, <4>2 DEF GateInv, GateTypes, TypeOK
    <3>2. NoLeakedKey' /\ IdleEventAgrees' /\ EnrichmentYields'
      BY <2>2, FinishKeeps
    <3> QED
      BY <3>1, <3>2 DEF GateInv
  <2>3. CASE gateUnchanged /\ UNCHANGED turnVars
    <3>1. TypeOK'
      BY <2>1, <2>3 DEF gateUnchanged, turnVars, workVars, GateInv, TypeOK
    <3> QED
      BY <2>3, <3>1, GateUntouched DEF turnVars, GateInv
  <2> QED
    BY <1>8, <2>2, <2>3 DEF Interruption
<1> QED
  BY <1>1, <1>2, <1>3, <1>4, <1>5, <1>6, <1>7, <1>8 DEF Frame

\* Teardown ends the current key, which by NoLeakedKey is all the session can hold.
LEMMA TeardownKeepsGateInv ==
  ASSUME GateInv, NEW s \in Sessions, Teardown(s), UNCHANGED workVars
  PROVE  GateInv'
<1>1. end(Key(s)) /\ UNCHANGED turnVars /\ closed' = [closed EXCEPT ![s] = TRUE]
  BY DEF Teardown
<1>2. NoLeakedKey'
  BY <1>1, EndOfCurrentKey, RemainingKeysKept DEF turnVars, GateInv, TypeOK
<1>3. {closed', llmRun', tool'} \subseteq [Sessions -> BOOLEAN]
      /\ audio' \in [Sessions -> SUBSET Contexts] /\ replyTurn' = replyTurn
  BY DEF Teardown, GateInv, TypeOK
<1>4. TypeOK'
  BY <1>1, <1>3, EndOfCurrentKey DEF turnVars, workVars, GateInv, GateTypes, TypeOK
<1> QED
  BY <1>1, <1>2, <1>4, EndOfCurrentKey DEF GateInv

\* The lane touches no turn.  register_idle_task starts a child only while no key
\* is active, and every begin() preempts it: EnrichmentYields.
LEMMA LaneKeepsGateInv ==
  ASSUME GateInv, (\E i \in Items : enqueue_enrichment(i)) \/ WorkerStep
  PROVE  GateInv'
<1>1. UNCHANGED <<gate, idle, turnVars, closed, replyVars>>
  BY DEF enqueue_enrichment, WorkerStep, TakeItem, RegisterChild, ChildEnds,
         ChildCancelled, workVars
<1> DEFINE Kept == /\ queue' \in Seq(Items) /\ pc' \in WorkerStates
                   /\ item' \in Items \cup {NoItem} /\ outcome' \in [Items -> Outcomes]
                   /\ EnrichmentYields'
<1>2. Kept
  <2>1. /\ queue \in Seq(Items) /\ pc \in WorkerStates
        /\ item \in Items \cup {NoItem} /\ outcome \in [Items -> Outcomes]
        /\ EnrichmentYields
    BY DEF GateInv, TypeOK
  <2>2. ASSUME NEW i \in Items, enqueue_enrichment(i)
        PROVE  Kept
    <3>1. queue' = queue \/ queue' = Append(queue, i)
      BY <2>2 DEF enqueue_enrichment
    <3>2. queue' \in Seq(Items)
      BY <2>1, <3>1, AppendProperties
    <3>3. outcome' \in [Items -> Outcomes]
      BY <2>1, <2>2 DEF enqueue_enrichment, Outcomes
    <3> QED
      BY <2>1, <2>2, <3>2, <3>3 DEF enqueue_enrichment, EnrichmentYields
  <2>3. CASE TakeItem
    <3>1. Head(queue) \in Items /\ Tail(queue) \in Seq(Items)
      BY <2>1, <2>3 DEF TakeItem
    <3> QED
      BY <2>1, <2>3, <3>1 DEF TakeItem, awaitIdle, WorkerStates, EnrichmentYields
  <2>4. CASE RegisterChild \/ ChildCancelled
    BY <2>1, <2>4 DEF RegisterChild, ChildCancelled, awaitIdle, workVars, WorkerStates,
                      EnrichmentYields
  <2>5. CASE ChildEnds
    BY <2>1, <2>5 DEF ChildEnds, WorkerStates, Outcomes, EnrichmentYields
  <2> QED
    BY <2>2, <2>3, <2>4, <2>5 DEF WorkerStep
<1>3. TypeOK'
  <2>1. /\ gate' = gate /\ idle' = idle /\ turnId' = turnId /\ active' = active
        /\ speechOpen' = speechOpen /\ identityOpen' = identityOpen
        /\ llmSeen' = llmSeen /\ audioSeen' = audioSeen /\ cancelled' = cancelled
        /\ fillerSpoken' = fillerSpoken /\ closed' = closed /\ llmRun' = llmRun
        /\ tool' = tool /\ audio' = audio /\ replyTurn' = replyTurn
    BY <1>1 DEF turnVars, replyVars
  <2> QED
    BY <2>1, <1>2 DEF GateInv, TypeOK
<1>4. NoLeakedKey' /\ IdleEventAgrees'
  BY <1>1 DEF turnVars, GateInv, NoLeakedKey, Key, IdleEventAgrees
<1> QED
  BY <1>2, <1>3, <1>4 DEF GateInv

\* Every step keeps the inductive invariant.
LEMMA NextKeepsGateInv == GateInv /\ [Next]_vars => GateInv'
<1> SUFFICES ASSUME GateInv, [Next]_vars PROVE GateInv'
  OBVIOUS
<1>1. CASE SessionStep
  BY <1>1, FrameKeepsGateInv, TeardownKeepsGateInv DEF SessionStep
<1>2. CASE (\E i \in Items : enqueue_enrichment(i)) \/ WorkerStep
  BY <1>2, LaneKeepsGateInv
<1>3. CASE UNCHANGED vars
  BY <1>3 DEF vars, turnVars, replyVars, workVars, GateInv, TypeOK, NoLeakedKey, Key,
              IdleEventAgrees, EnrichmentYields
<1> QED
  BY <1>1, <1>2, <1>3 DEF Next

\* In every reachable state the gate is sound: its keys belong to live turns, its
\* event tells the truth and no undisturbed job runs beside a live turn.
THEOREM GateAlwaysSound == Spec => []GateInv
<1> QED
  BY InitGateInv, NextKeepsGateInv, PTL DEF Spec

\* The types of the gate, the turn state and the lane.
THEOREM GateTypeCorrect == Spec => []TypeOK
<1>1. GateInv => TypeOK
  BY DEF GateInv
<1> QED
  BY <1>1, GateAlwaysSound, PTL

\* No key outlives its turn or its session, so no key can starve enrichment.
THEOREM NoKeyLeaks == Spec => []NoLeakedKey
<1>1. GateInv => NoLeakedKey
  BY DEF GateInv
<1> QED
  BY <1>1, GateAlwaysSound, PTL

\* The event wait_until_idle waits for is set exactly while no turn is active.
THEOREM IdleEventTruthful == Spec => []IdleEventAgrees
<1>1. GateInv => IdleEventAgrees
  BY DEF GateInv
<1> QED
  BY <1>1, GateAlwaysSound, PTL

\* No enrichment job runs, without having been told to stop, beside a live turn.
THEOREM EnrichmentAlwaysYields == Spec => []EnrichmentYields
<1>1. GateInv => EnrichmentYields
  BY DEF GateInv
<1> QED
  BY <1>1, GateAlwaysSound, PTL

---------------------------------------------------------------------------
\* The jobs of the lane: those that wait are owed a result, each is queued once
\* and none of them is the one that the worker holds.
LaneInv ==
  /\ JobKept
  /\ \A n \in 1..Len(queue) : outcome[queue[n]] = "queued" /\ queue[n] # item
  /\ \A m, n \in 1..Len(queue) : queue[m] = queue[n] => m = n

LEMMA InitLaneInv == Init => LaneInv
<1> SUFFICES ASSUME Init PROVE LaneInv
  OBVIOUS
<1>1. Len(queue) = 0 /\ pc = "get" /\ item = NoItem
  BY DEF Init
<1> QED
  BY <1>1 DEF LaneInv, JobKept

LEMMA NextKeepsLaneInv == GateInv /\ LaneInv /\ [Next]_vars => LaneInv'
<1> SUFFICES ASSUME GateInv, LaneInv, [Next]_vars PROVE LaneInv'
  OBVIOUS
<1>1. /\ queue \in Seq(Items) /\ outcome \in [Items -> Outcomes] /\ NoItem \notin Items
      /\ item \in Items \cup {NoItem} /\ JobKept
  BY TurnGateAssumption DEF GateInv, TypeOK, LaneInv, NoItem
<1>2. ASSUME UNCHANGED <<queue, item, outcome>>, (pc = "get") = (pc' = "get")
      PROVE  LaneInv'
  BY <1>2 DEF LaneInv, JobKept
<1>3. CASE SessionStep \/ UNCHANGED vars \/ RegisterChild \/ ChildCancelled
  <2>1. UNCHANGED <<queue, item, outcome>>
    BY <1>3 DEF SessionStep, RegisterChild, ChildCancelled, vars, workVars
  <2>2. (pc = "get") = (pc' = "get")
    <3>1. ASSUME NEW g, NEW p PROVE (p = "get") = (BegunPc(p) = "get")
                                    /\ (p = "get") = (EndedPc(g, p) = "get")
      BY DEF BegunPc, EndedPc
    <3>2. CASE SessionStep
      <4>1. PICK s \in Sessions : Frame(s) \/ Teardown(s)
        BY <3>2 DEF SessionStep
      <4>2. \/ pc' = pc \/ (\E g : pc' = EndedPc(g, pc))
            \/ (\E g : pc' = BegunPc(EndedPc(g, pc))) \/ pc' = BegunPc(pc)
        BY <4>1 DEF Frame, VADUserStartedSpeaking, UserStoppedSpeaking, Transcription, LLMContext,
          FunctionCallInProgress, ToolFiller, FunctionCallResult, LLMText, LLMFullResponseEnd,
          TTSAudio, TTSStopped, Interruption, Teardown, mark_user_started, mark_user_stopped,
          openSpeech, finish, start_turn, record_final_stt_fragment, finish_response, end,
          endThenBegin, gateUnchanged
      <4> QED
        BY <3>1, <4>2
    <3>3. CASE UNCHANGED vars \/ RegisterChild \/ ChildCancelled
      BY <3>3 DEF vars, RegisterChild, ChildCancelled, awaitIdle
    <3> QED
      BY <1>3, <3>2, <3>3
  <2> QED
    BY <1>2, <2>1, <2>2
<1>4. ASSUME NEW i \in Items, enqueue_enrichment(i)
      PROVE  LaneInv'
  <2>1. /\ outcome[i] = "new" /\ UNCHANGED <<pc, item>> /\ i # item
        /\ \A n \in 1..Len(queue) : queue[n] \in Items /\ queue[n] # i
    BY <1>1, <1>4 DEF enqueue_enrichment, LaneInv, JobKept
  <2>2. CASE queue' = queue /\ outcome' = [outcome EXCEPT ![i] = "rejected"]
    BY <1>1, <2>1, <2>2 DEF LaneInv, JobKept
  <2>3. CASE queue' = Append(queue, i) /\ outcome' = [outcome EXCEPT ![i] = "queued"]
    <3>1. /\ Len(queue) \in Nat /\ Len(queue') = Len(queue) + 1 /\ queue'[Len(queue) + 1] = i
          /\ \A n \in 1..Len(queue) : queue'[n] = queue[n]
      BY <1>1, <2>3
    <3>2. \A n \in 1..Len(queue') : n \in 1..Len(queue) \/ n = Len(queue) + 1
      BY <3>1
    <3> QED
      BY <1>1, <2>1, <2>3, <3>1, <3>2 DEF LaneInv, JobKept
  <2> QED
    BY <1>4, <2>2, <2>3 DEF enqueue_enrichment
<1>5. CASE TakeItem
  <2>1. /\ pc = "get" /\ pc' # "get" /\ outcome' = outcome /\ queue # <<>>
        /\ item' = Head(queue) /\ queue' = Tail(queue)
    BY <1>5 DEF TakeItem, awaitIdle
  <2>2. /\ Len(queue) \in Nat \ {0} /\ Len(queue') = Len(queue) - 1 /\ item' = queue[1]
        /\ \A n \in 1..Len(queue') : queue'[n] = queue[n + 1]
    BY <1>1, <2>1
  <2>3. /\ 1 \in 1..Len(queue) /\ queue[1] \in Items
        /\ \A n \in 1..Len(queue') : n + 1 \in 1..Len(queue) /\ n + 1 # 1
    BY <1>1, <2>2
  <2>4. /\ \A n \in 1..Len(queue') : outcome[queue'[n]] = "queued" /\ queue'[n] # item'
        /\ \A m, n \in 1..Len(queue') : queue'[m] = queue'[n] => m = n
    BY <2>2, <2>3 DEF LaneInv
  <2>5. item' # NoItem /\ outcome[item'] = "queued"
    BY <1>1, <2>2, <2>3 DEF LaneInv
  <2> QED
    BY <2>1, <2>4, <2>5 DEF LaneInv, JobKept
<1>6. CASE ChildEnds
  <2>1. /\ pc = "run" /\ pc' = "get" /\ item' = NoItem /\ queue' = queue
        /\ \E result \in {"done", "dropped"} : outcome' = [outcome EXCEPT ![item] = result]
    BY <1>6 DEF ChildEnds
  <2>2. \A n \in 1..Len(queue) : queue[n] \in Items /\ queue[n] # item /\ queue[n] # NoItem
    BY <1>1 DEF LaneInv
  <2> QED
    BY <1>1, <2>1, <2>2 DEF LaneInv, JobKept
<1> QED
  BY <1>3, <1>4, <1>5, <1>6 DEF Next, WorkerStep

\* The worker keeps a job that was preempted or waits: it holds one exactly while
\* it does not wait for one, and that job is still owed its result.
THEOREM JobsAreKept == Spec => []JobKept
<1>1. GateInv /\ LaneInv /\ GateInv' /\ [Next]_vars => LaneInv'
  BY NextKeepsLaneInv
<1>2. LaneInv => JobKept
  BY DEF LaneInv
<1> QED
  BY <1>1, <1>2, InitLaneInv, GateAlwaysSound, PTL DEF Spec

---------------------------------------------------------------------------
\* The gate implements VoicePriority.

busySessions == {k[1] : k \in gate}

\* Ending the current turn releases the session, or finds it not busy.
LEMMA EndIsRelease ==
  ASSUME GateInv, NEW s \in Sessions, end(Key(s))
  PROVE  [Priority!Next]_(Priority!vars)
<1>1. gate' \subseteq gate /\ \A k \in gate' : k[1] # s
  BY EndOfCurrentKey
<1>2. \A k \in gate : k[1] # s => k \in gate'
  BY DEF end, Key
<1>3. busySessions' = busySessions \ {s}
  BY <1>1, <1>2 DEF busySessions
<1>4. (pc' = "run") = (pc = "run")
  BY DEF end, EndedPc
<1>5. CASE s \in busySessions
  BY <1>3, <1>4, <1>5 DEF Priority!Next, Priority!Release, busySessions
<1>6. CASE s \notin busySessions
  BY <1>3, <1>4, <1>6 DEF Priority!vars, busySessions
<1> QED
  BY <1>5, <1>6

\* A context frame claims the gate for its session, or finds it already busy.
LEMMA ContextIsClaim ==
  ASSUME GateInv, NEW s \in Sessions, start_turn(s)
  PROVE  [Priority!Next]_(Priority!vars)
<1>1. CASE gateUnchanged
  BY <1>1 DEF gateUnchanged, Priority!vars
<1>2. CASE ~gateUnchanged
  <2> DEFINE turn == turnId[s] + (IF active[s] \/ ~identityOpen[s] THEN 1 ELSE 0)
  <2>1. PICK old \in {{}, {Key(s)}} : endThenBegin(old, <<s, turn>>)
    <3>1. endThenBegin(IF active[s] THEN {Key(s)} ELSE {}, <<s, turn>>)
      BY <1>2 DEF start_turn
    <3>2. (IF active[s] THEN {Key(s)} ELSE {}) \in {{}, {Key(s)}}
      OBVIOUS
    <3> QED
      BY <3>1, <3>2
  <2> HIDE DEF turn
  <2>2. gate' = (gate \ old) \cup {<<s, turn>>} /\ pc' # "run"
    BY <2>1 DEF endThenBegin, BegunPc
  <2>3. \A k \in gate : k[1] # s => k \in gate'
    BY <2>1, <2>2 DEF Key
  <2>4. \A k \in gate' : k[1] = s \/ k \in gate
    BY <2>2
  <2>5. <<s, turn>> \in gate' /\ <<s, turn>>[1] = s
    BY <2>2
  <2>6. busySessions' = busySessions \cup {s}
    BY <2>3, <2>4, <2>5 DEF busySessions
  <2>7. CASE s \in busySessions
    <3>1. pc # "run"
      BY <2>7 DEF busySessions, GateInv, EnrichmentYields
    <3> QED
      BY <2>2, <2>6, <2>7, <3>1 DEF Priority!vars, busySessions
  <2>8. CASE s \notin busySessions
    BY <2>2, <2>6, <2>8 DEF Priority!Next, Priority!Claim, busySessions
  <2> QED
    BY <2>7, <2>8
<1> QED
  BY <1>1, <1>2

\* The worker starts work only when nobody is busy.
LEMMA LaneIsWork ==
  ASSUME GateInv, (\E i \in Items : enqueue_enrichment(i)) \/ WorkerStep
  PROVE  [Priority!Next]_(Priority!vars)
<1>1. gate' = gate
  BY DEF enqueue_enrichment, WorkerStep, TakeItem, RegisterChild, ChildEnds, ChildCancelled
<1>2. busySessions' = busySessions
  BY <1>1 DEF busySessions
<1>3. CASE pc' = "run" /\ pc # "run"
  <2>1. gate = {}
    BY <1>3 DEF enqueue_enrichment, WorkerStep, TakeItem, RegisterChild, ChildEnds,
                ChildCancelled, awaitIdle
  <2>2. busySessions = {}
    BY <2>1 DEF busySessions
  <2> QED
    BY <1>2, <1>3, <2>2 DEF Priority!Next, Priority!StartWork, busySessions
<1>4. CASE pc' # "run" /\ pc = "run"
  BY <1>2, <1>4 DEF Priority!Next, Priority!StopWork, busySessions
<1>5. CASE (pc' = "run") = (pc = "run")
  BY <1>2, <1>5 DEF Priority!vars, busySessions
<1> QED
  BY <1>3, <1>4, <1>5

\* Every step of the gate is a step, or a stutter, of the abstract promise.
LEMMA NextIsPriority == GateInv /\ [Next]_vars => [Priority!Next]_(Priority!vars)
<1> SUFFICES ASSUME GateInv, [Next]_vars PROVE [Priority!Next]_(Priority!vars)
  OBVIOUS
<1>1. ASSUME NEW s \in Sessions, Frame(s) \/ Teardown(s)
      PROVE  [Priority!Next]_(Priority!vars)
  <2>1. end(Key(s)) \/ gateUnchanged \/ start_turn(s)
    BY <1>1 DEF Frame, Teardown, VADUserStartedSpeaking, mark_user_started, openSpeech,
         UserStoppedSpeaking, mark_user_stopped, Transcription, record_final_stt_fragment,
         LLMContext, FunctionCallInProgress, ToolFiller, FunctionCallResult, LLMText,
         LLMFullResponseEnd, finish_response, TTSAudio, TTSStopped, Interruption, finish
  <2>2. gateUnchanged => UNCHANGED Priority!vars
    BY DEF gateUnchanged, Priority!vars
  <2> QED
    BY <2>1, <2>2, EndIsRelease, ContextIsClaim
<1>2. CASE SessionStep
  BY <1>1, <1>2 DEF SessionStep
<1>3. CASE (\E i \in Items : enqueue_enrichment(i)) \/ WorkerStep
  BY <1>3, LaneIsWork
<1>4. CASE UNCHANGED vars
  BY <1>4 DEF vars, Priority!vars
<1> QED
  BY <1>2, <1>3, <1>4 DEF Next

\* For every set of sessions and jobs the realtime gate implements VoicePriority.
THEOREM GateImplementsPriority == Spec => GateIsVoicePriority
<1>1. Init => Priority!Init
  BY DEF Init, Priority!Init
<1> QED
  BY <1>1, InitGateInv, NextKeepsGateInv, NextIsPriority, PTL
  DEF Spec, GateIsVoicePriority, Priority!Spec
====
