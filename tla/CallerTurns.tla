---- MODULE CallerTurns ----
(***************************************************************************)
(* The turns of a caller: what they say becomes final transcripts, a       *)
(* transcript or a typed text makes a turn, whose memory is retrieved and  *)
(* whose request goes to the language model, whose response may call the   *)
(* tools; when the caller speaks or types again, the retrieval, the        *)
(* request and the calls of its response are cancelled.                    *)
(***************************************************************************)
EXTENDS SpeechFinalization, QueryEmbedding, IssueWorkflow, ModelStream,
        HedgedStream, MemoryRetrieval

CONSTANTS
  Own,      \* the retrieval of this call; the others are of other calls
  Scopes    \* bound: what takes part in a behaviour, chosen at its start

ScopeType ==
  [words : 0..MaxWords, starts : 0..MaxStarts, typed : 0..3, turns : 0..MaxTurns,
   recalls : SUBSET BOOLEAN,   \* whether turns ask about earlier calls
   fails : BOOLEAN,            \* whether the model's provider may fail
   google : BOOLEAN,           \* whether it is Google, and else Groq
   operations : SUBSET Operations, asks : SUBSET Queries, askers : SUBSET Askers,
   outages : 0..MaxOutages]

ASSUME CallerAssumption == Own \in Askers /\ Calls \subseteq Nat /\ Scopes \subseteq ScopeType

VARIABLES
  scope,
  typed      \* texts that the caller typed

turnVars == <<scope, typed>>
modelVars == <<requestVars, hedgedVars>>
vars == <<speechVars, embeddingVars, issueVars, modelVars, retrievalVars, turnVars>>

Init ==
  /\ SpeechInit /\ EmbeddingInit /\ IssueInit /\ StreamInit /\ HedgedInit /\ RetrievalInit
  /\ scope \in Scopes /\ typed = 0

---------------------------------------------------------------------------
\* A user turn ends with something that was said or typed.
Turn ==
  /\ turn < scope.turns /\ (delivered # {} \/ typed > 0)
  /\ \E recalls \in scope.recalls : process_frame(recalls)
  /\ UNCHANGED <<speechVars, embeddingVars, issueVars, modelVars, turnVars>>

\* Its request, with the tools that route() lets the model choose.
Request ==
  /\ pushed # <<>> /\ pushed' = Tail(pushed)
  /\ IF scope.google THEN start_hedged /\ UNCHANGED requestVars
     ELSE start_request(IF IssueActive THEN "issue" ELSE "all") /\ UNCHANGED hedgedVars
  /\ UNCHANGED <<speechVars, embeddingVars, issueVars, turn, generation, retrieval, memory,
                 turnVars>>

\* Which of the free calls a response takes makes no difference.
FirstFree(begun) ==
  \A c \in begun, d \in Calls \ begun : At(d, "none") => c < d

\* A response ends; the tools that it calls begin.
Response ==
  /\ \/ stream_ends /\ UNCHANGED hedgedVars
     \/ hedged_ends /\ UNCHANGED requestVars
  /\ \/ UNCHANGED <<embeddingVars, issueVars>>
     \/ /\ \E begun \in SUBSET Calls : \E op \in [begun -> scope.operations] :
             FirstFree(begun) /\ begin_calls(op)
        /\ UNCHANGED embeddingVars
     \/ /\ offered = "all"
        /\ \E q \in scope.asks : query_knowledge_embedding(Own, q)
        /\ UNCHANGED issueVars
  /\ UNCHANGED <<speechVars, retrievalVars, turnVars>>

\* The caller speaks, or types, into what is going on.
Interruption ==
  /\ cancel_request /\ cancel_hedged /\ cancel_calls
  /\ IF asker[Own] = Idle THEN UNCHANGED asker ELSE cancel_query(Own)
  /\ UNCHANGED <<circuit, failures, cooled, probe, inflight, cache, up, outages>>
  /\ \/ speaking /\ start_user_turn /\ UNCHANGED typed
     \/ /\ typed < scope.typed /\ typed' = typed + 1
        /\ start_user_turn \/ UNCHANGED <<generation, retrieval, memory>>
  /\ pushed' = <<>>
  /\ UNCHANGED <<speechVars, turn, scope>>

---------------------------------------------------------------------------
CallerSpeaks ==
  \/ said < scope.words /\ Speak
  \/ scope.words > 0 /\ (Silence \/ Ends)
  \/ starts < scope.starts /\ Starts
  \/ Stops

SpeechStep ==
  /\ Service \/ CallerSpeaks \/ LineCompleted
  /\ UNCHANGED <<embeddingVars, issueVars, modelVars, retrievalVars, turnVars>>

OthersAsk == \E a \in scope.askers, q \in Queries : query_knowledge_embedding(a, q)

EmbeddingStep ==
  /\ OthersAsk \/ Embedding
  /\ outages' =< scope.outages
  /\ UNCHANGED <<speechVars, issueVars, modelVars, retrievalVars, turnVars>>

IssueStep ==
  /\ \E c \in Calls : CallStep(c)
  /\ UNCHANGED <<speechVars, embeddingVars, modelVars, retrievalVars, turnVars>>

StreamStep ==
  /\ \/ /\ RequestStep /\ (scope.fails \/ stream_created \/ first_output \/ output)
        /\ UNCHANGED hedgedVars
     \/ HedgedStep /\ UNCHANGED requestVars
  /\ UNCHANGED <<speechVars, embeddingVars, issueVars, retrievalVars, turnVars>>

MemoryStep ==
  /\ RetrievalStep
  /\ UNCHANGED <<speechVars, embeddingVars, issueVars, modelVars, turnVars>>

Next ==
  \/ Turn \/ Request \/ Response \/ Interruption
  \/ SpeechStep \/ EmbeddingStep \/ IssueStep \/ StreamStep \/ MemoryStep

\* The tasks and threads of the process run; a provider's outage ends, and
\* while the circuit is open other calls go on asking.
Fairness ==
  /\ WF_speechVars(RunJob) /\ WF_speechVars(run_event_pump)
  /\ WF_speechVars(await_native_finalization) /\ WF_speechVars(Frame)
  /\ WF_embeddingVars(recovery_probe) /\ WF_embeddingVars(cooldown)
  /\ WF_embeddingVars(provider_recovers) /\ WF_embeddingVars(\E a \in Askers : outcome(a))
  /\ WF_embeddingVars(circuit # "closed" /\ OthersAsk)
  /\ WF_requestVars(RequestStep \/ stream_ends) /\ WF_hedgedVars(HedgedStep \/ hedged_ends)

Spec == Init /\ [][Next]_vars /\ Fairness

TypeOK ==
  /\ SpeechTypeOK /\ EmbeddingTypeOK /\ IssueTypeOK /\ StreamTypeOK
  /\ HedgedTypeOK /\ RetrievalTypeOK
  /\ scope \in Scopes /\ typed \in 0..scope.typed

\* Every request to the model ends, as RequestEnds and HedgedEnds say.
ModelAnswers == RequestEnds /\ HedgedEnds
====
