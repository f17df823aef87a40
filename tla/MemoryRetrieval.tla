---- MODULE MemoryRetrieval ----
(***************************************************************************)
(* MemoryRetrievalProcessor (core/processors.py): a turn that asks about   *)
(* an earlier call waits for the caller's memory before its frame goes on  *)
(* to the language model.  The retrieval is a task of its own, which the   *)
(* next turn supersedes; its cancellation takes effect later.              *)
(***************************************************************************)
EXTENDS Naturals, Sequences

CONSTANT MaxTurns   \* bound: turns of the caller

ASSUME RetrievalAssumption == MaxTurns \in Nat

VARIABLES
  turn,         \* number of the newest turn
  generation,   \* the turn whose retrieval holds _generation, 0 for none
  retrieval,    \* where the task of each turn is
  memory,       \* the turn whose memory is in the context, 0 for none
  pushed        \* turns whose frame is on its way to the model

retrievalVars == <<turn, generation, retrieval, memory, pushed>>

Turns == 1..MaxTurns

RetrievalInit ==
  /\ turn = 0 /\ generation = 0 /\ memory = 0 /\ pushed = <<>>
  /\ retrieval = [t \in Turns |-> "none"]

\* _supersede_active_retrieval.
Superseded ==
  [t \in Turns |-> IF retrieval[t] = "running" THEN "cancelled" ELSE retrieval[t]]

\* process_frame of a turn's context, which first loses the last turn's memory.
process_frame(recalls) ==
  /\ turn < MaxTurns /\ turn' = turn + 1
  /\ memory' = 0
  /\ IF recalls
     THEN /\ retrieval' = [Superseded EXCEPT ![turn + 1] = "running"]
          /\ generation' = turn + 1
          /\ UNCHANGED pushed
     ELSE /\ retrieval' = Superseded /\ generation' = 0
          /\ pushed' = Append(pushed, turn + 1)

is_current_generation(t) == generation = t
End(t) == retrieval' = [retrieval EXCEPT ![t] = "none"]

\* _retrieve_and_push: the memory arrives, or there is none, or no time for it.
retrieved(t) ==
  /\ retrieval[t] = "running"
  /\ IF is_current_generation(t)
     THEN memory' \in {memory, t} /\ pushed' = Append(pushed, t)
     ELSE UNCHANGED <<memory, pushed>>
  /\ End(t)
  /\ UNCHANGED <<turn, generation>>

\* Fault: the finally clause pushes whatever was not delivered.
retrieval_cancelledPushes(t) ==
  /\ retrieval[t] = "cancelled"
  /\ pushed' = Append(pushed, t)
  /\ End(t)
  /\ UNCHANGED <<turn, generation, memory>>

\* The cancellation reaches the task; its finally clause looks once more.
retrieval_cancelled(t) ==
  /\ retrieval[t] = "cancelled"
  /\ pushed' = IF is_current_generation(t) THEN Append(pushed, t) ELSE pushed
  /\ End(t)
  /\ UNCHANGED <<turn, generation, memory>>

RetrievalStep == \E t \in Turns : retrieved(t) \/ retrieval_cancelled(t)

start_user_turn ==
  /\ generation' = 0
  /\ retrieval' = Superseded
  /\ memory' = 0

RetrievalTypeOK ==
  /\ turn \in 0..MaxTurns /\ memory \in 0..turn
  /\ generation \in 0..turn
  /\ retrieval \in [Turns -> {"none", "running", "cancelled"}]
  /\ pushed \in Seq(1..turn)

\* A retrieval that ends after the caller's next turn has begun neither goes on
\* to the model nor leaves its memory in the next turn's context: what is pushed
\* is the newest turn, once, with its own memory or none.
OwnContext ==
  [][\A t \in Turns :
       pushed' = Append(pushed, t) =>
         /\ t = turn' /\ memory' \in {0, t}
         /\ \A i \in DOMAIN pushed : pushed[i] # t]_retrievalVars
====
