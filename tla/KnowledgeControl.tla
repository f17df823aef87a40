---- MODULE KnowledgeControl ----
(***************************************************************************)
(* The knowledge control plane: worker processes execute the jobs, a job's *)
(* execution is the work on the units, administrators review units and     *)
(* publish releases meanwhile.                                             *)
(***************************************************************************)
EXTENDS KnowledgeJobs, KnowledgeReleases

CONSTANTS
  KindOf,   \* each job's type
  Scopes    \* bound: what takes part in a behaviour, chosen at its start

ScopeType ==
  [workers : SUBSET Workers, jobs : SUBSET Jobs, faults : 0..MaxFaults,
   retries : 0..MaxRetries, edits : 0..MaxEdits, reviews : 0..MaxReviews,
   releases : SUBSET Releases, admins : SUBSET Admins]

ASSUME KnowledgeControlAssumption ==
  /\ Crawlers = Workers
  /\ KindOf \in [Jobs -> {"crawl_source", "embed_units", "detect_conflicts"}]
  /\ Scopes \subseteq ScopeType

VARIABLE scope

vars == <<jobVars, unitVars, releaseVars, scope>>

Init == JobsInit /\ UnitsInit /\ ReleasesInit /\ scope \in Scopes

Executes(w, kind) == worker[w].pc = "executing" /\ KindOf[worker[w].job] = kind

Work(w) ==
  /\ \/ Executes(w, "crawl_source") /\ crawl_website_source(w)
     \/ Executes(w, "embed_units") /\ embed_units(w)
     \/ Executes(w, "detect_conflicts") /\ detect_knowledge_conflicts(w)
  /\ UNCHANGED <<jobVars, releaseVars>>

\* The session of an execution goes with it: what it had read is forgotten.
SessionEnds(w) ==
  /\ task' = [task EXCEPT ![w] = Idle]
  /\ UNCHANGED <<page, normalized, units, embedded, conflict, approved, raced,
                 edits, reviews, releaseVars>>

Outcome(w) == (task[w].pc = "done" /\ succeed(w)) \/ raise(w)

\* The process's own steps, from its start to its end.
WorkerStep(w) ==
  /\ \/ Work(w)
     \/ Outcome(w) /\ SessionEnds(w)
     \/ /\ recover_read(w) \/ recover_write(w) \/ claim_next_knowledge_job(w)
           \/ execute(w) \/ record_failure(w)
        /\ UNCHANGED <<unitVars, releaseVars>>
  /\ UNCHANGED scope

\* A crash or an outage of the database, which nothing is bound to.
Fails(w) ==
  /\ faults < scope.faults
  /\ die(w) \/ execution_unrecorded(w) \/ (success_unanswered(w) /\ task[w].pc = "done")
  /\ SessionEnds(w)

JobRequest(j) ==
  /\ \/ enqueue_knowledge_job(j) \/ TimePasses(j)
     \/ retries < scope.retries /\ retry_job(j)
  /\ UNCHANGED <<unitVars, releaseVars>>

UnitStep ==
  /\ (reviews < scope.reviews /\ Review) \/ (edits < scope.edits /\ page_changes)
  /\ UNCHANGED <<jobVars, releaseVars>>

ReleaseStep ==
  /\ (\E r \in scope.releases : create_release(r)) \/ (\E a \in scope.admins : Transaction(a))
  /\ UNCHANGED <<jobVars, unitVars>>

Next ==
  \/ \E w \in scope.workers : WorkerStep(w)
  \/ /\ \/ \E w \in scope.workers : Fails(w)
        \/ \E j \in scope.jobs : JobRequest(j)
        \/ UnitStep \/ ReleaseStep
     /\ UNCHANGED scope

\* A worker process that ends is started again and its loop goes on.
Fairness == \A w \in Workers : WF_vars(w \in scope.workers /\ WorkerStep(w))

Spec == Init /\ [][Next]_vars /\ Fairness

TypeOK == JobsTypeOK /\ UnitsTypeOK /\ ReleasesTypeOK /\ scope \in Scopes

\* A running job whose worker died, or could not record how it ended and went on
\* with other jobs, with no process left that could recover it.
Abandoned(j) ==
  /\ jobs[j].status = "running" /\ j \in orphaned
  /\ \A w \in scope.workers :
       worker[w].job # j /\ worker[w].pc # "down" /\ j \notin DOMAIN loaded[w]

\* Once workers stop dying every job that was asked for ends, except one whose
\* worker died and whose claim was not yet stale when the next one started, and
\* one whose outcome its worker, which lives on, could not write: recovery is run
\* at a worker's start only.
JobsEnd ==
  \A j \in Jobs : <>[](jobs[j].status \in {"none"} \cup Settled \/ Abandoned(j))
====
