---- MODULE QueryEmbedding ----
(***************************************************************************)
(* The circuit breaker around the embedding of knowledge queries           *)
(* (services/knowledge/embedding.py), one for all calls of the process.    *)
(*                                                                         *)
(* A query shares the task of an equal query that is under way; the task   *)
(* is shielded, so that it outlives the time-out or the cancellation of    *)
(* the queries that wait for it.  The locks are held across no await, so a *)
(* query is one step up to its wait.                                       *)
(***************************************************************************)
EXTENDS Naturals, FiniteSets

CONSTANTS
  Queries,       \* normalized texts
  Askers,        \* retrievals that can be under way at once
  Threshold,     \* KNOWLEDGE_EMBEDDING_CIRCUIT_FAILURES
  InflightMax,   \* KNOWLEDGE_QUERY_INFLIGHT_MAX
  MaxOutages     \* bound: times the provider goes down

ASSUME QueryEmbeddingAssumption ==
  Threshold \in Nat \ {0} /\ InflightMax \in Nat \ {0} /\ MaxOutages \in Nat

VARIABLES
  circuit,    \* _circuit_state
  failures,   \* _circuit_failures, as far as the threshold
  cooled,     \* the cooldown since _circuit_opened_at is over
  probe,      \* _recovery_probe_task runs
  inflight,   \* _query_inflight
  cache,      \* _query_cache
  asker,      \* what each retrieval waits for, and whether it was answered
  up,         \* the provider answers
  outages

embeddingVars == <<circuit, failures, cooled, probe, inflight, cache, asker, up, outages>>

Idle == [query |-> "none", state |-> "idle"]

EmbeddingInit ==
  /\ circuit = "closed" /\ failures = 0 /\ cooled = FALSE /\ probe = FALSE
  /\ inflight = {} /\ cache = {}
  /\ asker = [a \in Askers |-> Idle]
  /\ up = TRUE /\ outages = 0

record_success == circuit' = "closed" /\ failures' = 0 /\ UNCHANGED cooled

\* Every failure at the threshold starts the cooldown anew.
record_failure ==
  /\ failures' = IF failures < Threshold THEN failures + 1 ELSE Threshold
  /\ IF failures' = Threshold THEN circuit' = "open" /\ cooled' = FALSE
     ELSE UNCHANGED <<circuit, cooled>>

Rest(a) == asker' = [asker EXCEPT ![a] = Idle]
Wait(a, q) == asker' = [asker EXCEPT ![a] = [query |-> q, state |-> "waiting"]]

---------------------------------------------------------------------------
\* _circuit_allows_request: the first query after the cooldown starts the
\* probe, and is bypassed like the ones that come while it runs.
bypassed ==
  /\ circuit # "closed"
  /\ IF circuit = "open" /\ cooled
     THEN circuit' = "half_open" /\ probe' = TRUE
     ELSE UNCHANGED <<circuit, probe>>
  /\ UNCHANGED <<failures, cooled, inflight, asker>>

\* _query_vector, from the cache, from a shared task or from a new one; without
\* room for one it raises.
allowed(a, q) ==
  /\ circuit = "closed"
  /\ \/ q \in cache /\ record_success /\ UNCHANGED <<inflight, asker>>
     \/ /\ q \notin cache
        /\ q \in inflight \/ Cardinality(inflight) < InflightMax
        /\ inflight' = inflight \cup {q} /\ Wait(a, q)
        /\ UNCHANGED <<circuit, failures, cooled>>
     \/ /\ q \notin cache \cup inflight /\ Cardinality(inflight) >= InflightMax
        /\ record_failure /\ UNCHANGED <<inflight, asker>>
  /\ UNCHANGED probe

query_knowledge_embedding(a, q) ==
  /\ asker[a] = Idle
  /\ bypassed \/ allowed(a, q)
  /\ UNCHANGED <<cache, up, outages>>

\* _run_query_embedding: nothing bounds its time.
run_query_embedding(q) ==
  /\ q \in inflight
  /\ inflight' = inflight \ {q}
  /\ \E state \in {"raised"} \cup (IF up THEN {"answered"} ELSE {}) :
       /\ cache' = IF state = "answered" THEN cache \cup {q} ELSE cache
       /\ asker' = [a \in Askers |-> IF asker[a] = [query |-> q, state |-> "waiting"]
                                     THEN [asker[a] EXCEPT !.state = state] ELSE asker[a]]
  /\ UNCHANGED <<circuit, failures, cooled, probe, up, outages>>

\* The query resumes with the task's outcome, or its own time is over.
outcome(a) ==
  /\ \/ asker[a].state = "answered" /\ record_success
     \/ asker[a].state \in {"raised", "waiting"} /\ record_failure
  /\ Rest(a)
  /\ UNCHANGED <<probe, inflight, cache, up, outages>>

\* An interrupted retrieval records nothing.
cancel_query(a) == asker[a] # Idle /\ Rest(a)

---------------------------------------------------------------------------
\* Fault: a failed probe is not recorded.
recovery_probeSilent ==
  /\ probe /\ probe' = FALSE
  /\ IF up THEN record_success ELSE UNCHANGED <<circuit, failures, cooled>>
  /\ UNCHANGED <<inflight, cache, asker, up, outages>>

\* _recovery_probe, whose time is bounded.
recovery_probe ==
  /\ probe /\ probe' = FALSE
  /\ IF up THEN record_success ELSE record_failure
  /\ UNCHANGED <<inflight, cache, asker, up, outages>>

cooldown ==
  /\ circuit = "open" /\ ~cooled /\ cooled' = TRUE
  /\ UNCHANGED <<circuit, failures, probe, inflight, cache, asker, up, outages>>

\* A cached vector is too old, or had to make room.
evict(q) ==
  /\ q \in cache /\ cache' = cache \ {q}
  /\ UNCHANGED <<circuit, failures, cooled, probe, inflight, asker, up, outages>>

provider_fails ==
  /\ up /\ outages < MaxOutages
  /\ up' = FALSE /\ outages' = outages + 1
  /\ UNCHANGED <<circuit, failures, cooled, probe, inflight, cache, asker>>

provider_recovers ==
  /\ ~up /\ up' = TRUE
  /\ UNCHANGED <<circuit, failures, cooled, probe, inflight, cache, asker, outages>>

Embedding ==
  \/ \E q \in Queries : run_query_embedding(q) \/ evict(q)
  \/ \E a \in Askers : outcome(a)
  \/ recovery_probe \/ cooldown \/ provider_fails \/ provider_recovers

EmbeddingTypeOK ==
  /\ circuit \in {"closed", "open", "half_open"}
  /\ failures \in 0..Threshold /\ {cooled, probe, up} \subseteq BOOLEAN
  /\ inflight \subseteq Queries /\ Cardinality(inflight) =< InflightMax
  /\ cache \subseteq Queries
  /\ \A a \in Askers : asker[a] # Idle => asker[a].query \in Queries
  /\ circuit = "half_open" => probe
  /\ outages \in 0..MaxOutages

\* An open circuit closes again once the provider answers and queries are
\* asked, whatever queries that were let through earlier still report.
CircuitCloses == circuit # "closed" ~> circuit = "closed"
====
