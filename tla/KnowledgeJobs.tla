---- MODULE KnowledgeJobs ----
(***************************************************************************)
(* The durable jobs of the knowledge control plane and the workers that    *)
(* execute them (services/knowledge/jobs.py, core/knowledge_worker.py, the *)
(* job endpoints of api/knowledge.py).                                     *)
(*                                                                         *)
(* A worker's claim is one transaction under the row's lock.  The recovery *)
(* of stale jobs and the record of a failure read rows without a lock and  *)
(* write them later, so each is two steps here.                            *)
(***************************************************************************)
EXTENDS Naturals

CONSTANTS
  Jobs,         \* the jobs administrators may create
  Workers,      \* knowledge worker processes
  MaxAttempts,  \* executions after which a failure is final (3 in jobs.py)
  MaxFaults,    \* bound: worker processes that die, executions whose record is lost
  MaxRetries    \* bound: failed jobs put back by an administrator

ASSUME KnowledgeJobsAssumption ==
  MaxAttempts \in Nat \ {0} /\ MaxFaults \in Nat /\ MaxRetries \in Nat

VARIABLES
  jobs,      \* rows of knowledge_jobs
  worker,    \* where each process is, and the job it holds
  loaded,    \* the rows each process's session has read and will write
  taken,     \* history: jobs a recovery has put back or failed, or whose success was
             \* committed without an answer
  orphaned,  \* history: jobs whose worker died, or went on without their outcome
  faults, retries

jobVars == <<jobs, worker, loaded, taken, orphaned, faults, retries>>

NoJob == "no job"
Settled == {"succeeded", "failed"}
JobStatuses == {"none", "queued", "running"} \cup Settled

\* claim: claimed_at is null, recent, or older than the stale cutoff.
JobRows == [status : JobStatuses, attempts : Nat, claim : {"null", "recent", "stale"}]
NoRow == [status |-> "none", attempts |-> 0, claim |-> "null"]

JobsInit ==
  /\ jobs = [j \in Jobs |-> NoRow]
  /\ worker = [w \in Workers |-> [pc |-> "down", job |-> NoJob]]
  /\ loaded = [w \in Workers |-> [j \in {} |-> NoRow]]
  /\ taken = {} /\ orphaned = {}
  /\ faults = 0 /\ retries = 0

Enter(w, pc, j) == worker' = [worker EXCEPT ![w] = [pc |-> pc, job |-> j]]
Forget(w) == loaded' = [loaded EXCEPT ![w] = [j \in {} |-> NoRow]]

\* A session's flush writes the columns whose value differs from the one read.
Flushed(row, read, set) ==
  [c \in DOMAIN row |-> IF set[c] = read[c] THEN row[c] ELSE set[c]]

---------------------------------------------------------------------------
enqueue_knowledge_job(j) ==
  /\ jobs[j].status = "none"
  /\ jobs' = [jobs EXCEPT ![j].status = "queued"]
  /\ UNCHANGED <<worker, loaded, taken, orphaned, faults, retries>>

\* The administrator's retry of a failed job, under the row's lock.
retry_job(j) ==
  /\ jobs[j].status = "failed" /\ retries < MaxRetries
  /\ jobs' = [jobs EXCEPT ![j] = [NoRow EXCEPT !.status = "queued"]]
  /\ retries' = retries + 1
  /\ UNCHANGED <<worker, loaded, taken, orphaned, faults>>

\* The claim of a running job grows older than KNOWLEDGE_WORKER_STALE_SECONDS,
\* whether or not a worker still executes it: nothing renews a claim.
TimePasses(j) ==
  /\ jobs[j].status = "running" /\ jobs[j].claim = "recent"
  /\ jobs' = [jobs EXCEPT ![j].claim = "stale"]
  /\ UNCHANGED <<worker, loaded, taken, orphaned, faults, retries>>

---------------------------------------------------------------------------
\* recover_stale_knowledge_jobs, which a worker runs once, when it starts.
recover_read(w) ==
  /\ worker[w].pc = "down"
  /\ loaded' = [loaded EXCEPT ![w] =
       [j \in {i \in Jobs : jobs[i].status = "running" /\ jobs[i].claim = "stale"}
          |-> jobs[j]]]
  /\ Enter(w, "recovering", NoJob)
  /\ UNCHANGED <<jobs, taken, orphaned, faults, retries>>

\* Fault: a job that has used its executions stays as it is.
AfterLast(attempts) == IF attempts < MaxAttempts THEN "queued" ELSE "running"

After(attempts) == IF attempts < MaxAttempts THEN "queued" ELSE "failed"

PutBack(row) == [row EXCEPT !.status = After(row.attempts), !.claim = "null"]

recover_write(w) ==
  /\ worker[w].pc = "recovering"
  /\ jobs' = [j \in Jobs |->
       IF j \in DOMAIN loaded[w]
       THEN Flushed(jobs[j], loaded[w][j], PutBack(loaded[w][j]))
       ELSE jobs[j]]
  /\ taken' = taken \cup DOMAIN loaded[w]
  /\ Enter(w, "polling", NoJob) /\ Forget(w)
  /\ UNCHANGED <<orphaned, faults, retries>>

\* Fault: the select does not lock, so two workers read one queued row.
claim_unlocked(w) ==
  \E j \in Jobs :
    /\ worker[w].pc = "polling"
    /\ \/ jobs[j].status = "queued"
       \/ \E v \in Workers : worker[v] = [pc |-> "claimed", job |-> j]
    /\ jobs' = [jobs EXCEPT ![j] =
         [status |-> "running", attempts |-> @.attempts + 1, claim |-> "recent"]]
    /\ Enter(w, "claimed", j)
    /\ UNCHANGED <<loaded, taken, orphaned, faults, retries>>

claim_next_knowledge_job(w) ==
  \E j \in Jobs :
    /\ worker[w].pc = "polling" /\ jobs[j].status = "queued"
    /\ jobs' = [jobs EXCEPT ![j] =
         [status |-> "running", attempts |-> @.attempts + 1, claim |-> "recent"]]
    /\ Enter(w, "claimed", j)
    /\ UNCHANGED <<loaded, taken, orphaned, faults, retries>>

\* execute_knowledge_job reads the job and leaves at once unless it is running.
execute(w) ==
  /\ worker[w].pc = "claimed"
  /\ IF jobs[worker[w].job].status = "running"
     THEN Enter(w, "executing", worker[w].job)
     ELSE Enter(w, "polling", NoJob)
  /\ UNCHANGED <<jobs, loaded, taken, orphaned, faults, retries>>

\* The work is done: the status is written whoever holds the claim by now.
succeed(w) ==
  /\ worker[w].pc = "executing"
  /\ jobs' = [jobs EXCEPT ![worker[w].job].status = "succeeded"]
  /\ Enter(w, "polling", NoJob)
  /\ UNCHANGED <<loaded, taken, orphaned, faults, retries>>

\* The commit lands and its answer is lost: the handler of the failure finds the row.
success_unanswered(w) ==
  /\ worker[w].pc = "executing" /\ faults < MaxFaults
  /\ jobs' = [jobs EXCEPT ![worker[w].job].status = "succeeded"]
  /\ loaded' = [loaded EXCEPT ![w] = [j \in {worker[w].job} |-> jobs'[j]]]
  /\ taken' = taken \cup {worker[w].job}
  /\ Enter(w, "failing", worker[w].job)
  /\ faults' = faults + 1
  /\ UNCHANGED <<orphaned, retries>>

\* The work raises: the session is rolled back and the row read afresh...
raise(w) ==
  /\ worker[w].pc = "executing"
  /\ loaded' = [loaded EXCEPT ![w] = [j \in {worker[w].job} |-> jobs[j]]]
  /\ Enter(w, "failing", worker[w].job)
  /\ UNCHANGED <<jobs, taken, orphaned, faults, retries>>

\* ... and queued again or failed, by the attempts that were read.
record_failure(w) ==
  LET j == worker[w].job IN
  /\ worker[w].pc = "failing"
  /\ jobs' = [jobs EXCEPT ![j] = Flushed(@, loaded[w][j], PutBack(loaded[w][j]))]
  /\ Enter(w, "polling", NoJob) /\ Forget(w)
  /\ UNCHANGED <<taken, orphaned, faults, retries>>

\* The database fails where nothing handles it: at the first SELECT, which is before
\* the try, or at the rollback, the SELECT or the commit of the handler.  The worker
\* logs it and goes on with the next job; the row stays as it is.
execution_unrecorded(w) ==
  /\ worker[w].pc \in {"claimed", "executing", "failing"} /\ faults < MaxFaults
  /\ Enter(w, "polling", NoJob) /\ Forget(w)
  /\ orphaned' = orphaned \cup {worker[w].job}
  /\ faults' = faults + 1
  /\ UNCHANGED <<jobs, taken, retries>>

\* The process dies, or between two jobs sees that it was told to stop.
die(w) ==
  /\ worker[w].pc # "down" /\ faults < MaxFaults
  /\ Enter(w, "down", NoJob) /\ Forget(w)
  /\ orphaned' = orphaned \cup ({worker[w].job} \ {NoJob})
  /\ faults' = faults + 1
  /\ UNCHANGED <<jobs, taken, retries>>

JobsTypeOK ==
  /\ jobs \in [Jobs -> JobRows]
  /\ worker \in [Workers ->
       [pc : {"down", "recovering", "polling", "claimed", "executing", "failing"},
        job : Jobs \cup {NoJob}]]
  /\ \A w \in Workers : DOMAIN loaded[w] \subseteq Jobs
  /\ taken \subseteq Jobs /\ orphaned \subseteq Jobs
  /\ faults \in 0..MaxFaults /\ retries \in 0..MaxRetries

\* Without a takeover of a stale claim or an unanswered success, a job that succeeded stays so, a job
\* that failed is executed again only by an administrator's retry, and no job
\* has more executions than it is allowed (a late writer's outcome, or a
\* recovery that read a row before it changed, overwrites the newer one).
OutcomeIsFinal ==
  [][\A j \in Jobs \ taken' :
       /\ jobs[j].status = "succeeded" => jobs'[j].status = "succeeded"
       /\ (jobs[j].status = "failed" /\ jobs'[j].status # "failed")
            => retries' = retries + 1
       /\ jobs'[j].attempts =< MaxAttempts]_jobVars
====
