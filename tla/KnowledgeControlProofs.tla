---- MODULE KnowledgeControlProofs ----
(***************************************************************************)
(* For any jobs, workers, units, releases and administrators: a job's      *)
(* outcome is final unless its claim was taken over or its success was not *)
(* answered, one release is live, and what a release serves was approved,  *)
(* unless a crawl raced a review.                                          *)
(***************************************************************************)
EXTENDS KnowledgeControl, WellFoundedInduction, TLAPS

---------------------------------------------------------------------------
\* The jobs.

Holds(w, j) == worker[w].job = j /\ worker[w].pc \in {"claimed", "executing", "failing"}

\* What the sessions of the workers have read are rows of jobs, the one whose
\* failure is recorded among them.
LoadedInv ==
  /\ DOMAIN loaded = Workers
  /\ \A w \in Workers : \A j \in DOMAIN loaded[w] : loaded[w][j] \in JobRows
  /\ \A w \in Workers :
       /\ worker[w].pc \in {"claimed", "executing", "failing"} => worker[w].job \in Jobs
       /\ worker[w].pc = "failing" => worker[w].job \in DOMAIN loaded[w]

\* A job that no recovery has touched has one holder at most while it runs, and
\* the failure that is recorded was read of this execution.
ClaimInv ==
  \A j \in Jobs \ taken :
    /\ \A w \in Workers : Holds(w, j) => jobs[j].status = "running"
    /\ \A v, w \in Workers : Holds(v, j) /\ Holds(w, j) => v = w
    /\ \A w \in Workers : Holds(w, j) /\ worker[w].pc = "failing" =>
         loaded[w][j].status = "running" /\ loaded[w][j].attempts = jobs[j].attempts
    /\ jobs[j].attempts =< MaxAttempts
    /\ jobs[j].status = "queued" => jobs[j].attempts < MaxAttempts
    /\ jobs[j].status = "none" => jobs[j].attempts = 0

---------------------------------------------------------------------------
\* The units: what a reviewer approved has that text, unless a crawl raced the
\* review; a draft was never approved; a crawl that read a reviewed unit with
\* another text goes on to a version of its own.
TextInv ==
  /\ \A u \in Unit :
       /\ Exists(u) => units[u].text \in Texts \cup {Spoken}
       /\ approved[u] # {} => units[u].text \in approved[u] \/ u \in raced
       /\ units[u].status = "approved" => approved[u] # {}
       /\ units[u].status \in {"none", "draft"} => approved[u] = {}
  /\ \A w \in Crawlers : At(w, "flush") =>
       /\ task[w].content \in Sections \X Texts
       /\ \/ task[w].base.status \notin {"approved", "retired"}
          \/ task[w].base.text = task[w].content[2]
          \/ task[w].next > 1

---------------------------------------------------------------------------
\* The releases: one is published at most, a transaction holds the row of its
\* target and, at its commit, that of the published release.
LockInv ==
  /\ \A p, r \in Releases : release[p] = "published" /\ release[r] = "published" => p = r
  /\ \A a \in Admins : txn[a].pc # "none" =>
       /\ txn[a].target \in Releases
       /\ lock[txn[a].target] = a
       /\ release[txn[a].target] = Required(txn[a].kind)
       /\ txn[a].pc = "commit" /\ txn[a].current # NoRelease =>
            lock[txn[a].current] = a /\ release[txn[a].current] = "published"

\* Every unit of a release that was validated was approved at some time.
MembersInv ==
  /\ \A r \in Served : \A u \in members[r] : approved[u] # {}
  /\ \A a \in Admins : txn[a].pc \in {"look", "lock", "commit"} =>
       \A u \in members[txn[a].target] : approved[u] # {}

JobInv == JobsTypeOK /\ LoadedInv /\ ClaimInv
CorpusInv == UnitsTypeOK /\ ReleasesTypeOK /\ TextInv /\ LockInv /\ MembersInv
ControlInv == JobInv /\ CorpusInv

---------------------------------------------------------------------------
\* What a flush leaves of a row that was put back by what was read of it.
LEMMA FlushedRow ==
  ASSUME NEW row \in JobRows, NEW read \in JobRows
  PROVE  LET put == Flushed(row, read, PutBack(read)) IN
         /\ put \in JobRows
         /\ put.status = IF After(read.attempts) = read.status THEN row.status
                         ELSE After(read.attempts)
         /\ put.attempts = row.attempts
<1> QED
  BY DEF JobRows, Flushed, PutBack, After, JobStatuses, Settled

LEMMA InitJobInv == JobsInit => JobInv
<1> SUFFICES ASSUME JobsInit PROVE JobInv
  OBVIOUS
<1>1. JobsTypeOK
  BY KnowledgeJobsAssumption DEF JobsInit, JobsTypeOK, JobRows, NoRow, JobStatuses, Settled
<1>2. LoadedInv /\ ClaimInv
  BY KnowledgeJobsAssumption DEF JobsInit, LoadedInv, ClaimInv, Holds, NoRow
<1> QED
  BY <1>1, <1>2 DEF JobInv

LEMMA RequestKeepsJobInv ==
  ASSUME JobInv, NEW j \in Jobs, enqueue_knowledge_job(j) \/ retry_job(j) \/ TimePasses(j)
  PROVE  JobInv'
<1> USE DEF JobInv
<1>1. JobsTypeOK'
  <2>1. jobs' \in [Jobs -> JobRows]
    BY DEF JobsTypeOK, JobRows, JobStatuses, Settled, NoRow, enqueue_knowledge_job, retry_job,
           TimePasses
  <2>2. retries' \in 0..MaxRetries
    BY KnowledgeJobsAssumption DEF JobsTypeOK, enqueue_knowledge_job, retry_job, TimePasses
  <2>3. UNCHANGED <<worker, loaded, taken, orphaned, faults>>
    BY DEF enqueue_knowledge_job, retry_job, TimePasses
  <2> QED
    BY <2>1, <2>2, <2>3 DEF JobsTypeOK
<1>2. LoadedInv'
  BY DEF LoadedInv, enqueue_knowledge_job, retry_job, TimePasses
<1>3. ClaimInv'
  BY KnowledgeJobsAssumption
     DEF JobsTypeOK, JobRows, ClaimInv, Holds, NoRow, enqueue_knowledge_job, retry_job, TimePasses
<1> QED
  BY <1>1, <1>2, <1>3

LEMMA RecoveryKeepsJobInv ==
  ASSUME JobInv, NEW w \in Workers, recover_read(w) \/ recover_write(w)
  PROVE  JobInv'
<1> USE DEF JobInv
<1>1. CASE recover_read(w)
  <2>1. JobsTypeOK'
    BY <1>1 DEF JobsTypeOK, LoadedInv, recover_read, Enter
  <2>2. LoadedInv'
    BY <1>1 DEF JobsTypeOK, LoadedInv, recover_read, Enter
  <2>3. ClaimInv'
    BY <1>1 DEF JobsTypeOK, ClaimInv, LoadedInv, Holds, recover_read, Enter
  <2> QED
    BY <2>1, <2>2, <2>3
<1>2. CASE recover_write(w)
  <2>1. DOMAIN loaded[w] \subseteq Jobs /\ \A j \in DOMAIN loaded[w] : loaded[w][j] \in JobRows
    BY DEF JobsTypeOK, LoadedInv
  <2>2. jobs' = [j \in Jobs |-> IF j \in DOMAIN loaded[w]
                                THEN Flushed(jobs[j], loaded[w][j], PutBack(loaded[w][j]))
                                ELSE jobs[j]]
    BY <1>2 DEF recover_write
  <2>3. jobs' \in [Jobs -> JobRows]
    <3>1. ASSUME NEW j \in Jobs PROVE jobs'[j] \in JobRows
      <4>1. jobs[j] \in JobRows
        BY DEF JobsTypeOK
      <4> QED
        BY <2>1, <2>2, <4>1, FlushedRow
    <3> QED
      BY <2>2, <3>1
  <2>4. /\ worker' = [worker EXCEPT ![w] = [pc |-> "polling", job |-> NoJob]]
        /\ loaded' = [loaded EXCEPT ![w] = [j \in {} |-> NoRow]]
        /\ taken' = taken \cup DOMAIN loaded[w]
        /\ UNCHANGED <<orphaned, faults, retries>>
    BY <1>2 DEF recover_write, Enter, Forget
  <2>5. JobsTypeOK'
    BY <2>1, <2>3, <2>4 DEF JobsTypeOK, LoadedInv
  <2>6. LoadedInv'
    BY <2>4 DEF JobsTypeOK, LoadedInv
  <2>7. \A j \in Jobs \ taken' : jobs'[j] = jobs[j]
    BY <2>2, <2>4
  <2>8. ClaimInv'
    BY <2>4, <2>7 DEF JobsTypeOK, ClaimInv, LoadedInv, Holds
  <2> QED
    BY <2>5, <2>6, <2>8
<1> QED
  BY <1>1, <1>2

LEMMA ClaimKeepsJobInv ==
  ASSUME JobInv, NEW w \in Workers, claim_next_knowledge_job(w)
  PROVE  JobInv'
<1> USE DEF JobInv
<1>1. PICK j \in Jobs :
        /\ worker[w].pc = "polling" /\ jobs[j].status = "queued"
        /\ jobs' = [jobs EXCEPT ![j] = [status |-> "running",
                                        attempts |-> jobs[j].attempts + 1, claim |-> "recent"]]
        /\ worker' = [worker EXCEPT ![w] = [pc |-> "claimed", job |-> j]]
        /\ UNCHANGED <<loaded, taken, orphaned, faults, retries>>
  BY DEF claim_next_knowledge_job, Enter
<1>2. JobsTypeOK'
  BY <1>1 DEF JobsTypeOK, JobRows, JobStatuses
<1>3. LoadedInv'
  BY <1>1 DEF JobsTypeOK, LoadedInv
<1>4. ClaimInv'
  BY <1>1, KnowledgeJobsAssumption DEF JobsTypeOK, JobRows, ClaimInv, Holds
<1> QED
  BY <1>2, <1>3, <1>4

LEMMA ExecutionKeepsJobInv ==
  ASSUME JobInv, NEW w \in Workers,
         execute(w) \/ succeed(w) \/ raise(w) \/ die(w) \/ execution_unrecorded(w)
  PROVE  JobInv'
<1> USE DEF JobInv
<1>1. CASE execute(w)
  <2>1. /\ worker[w].pc = "claimed" /\ UNCHANGED <<jobs, loaded, taken, orphaned, faults, retries>>
        /\ \/ worker' = [worker EXCEPT ![w] = [pc |-> "executing", job |-> worker[w].job]]
           \/ worker' = [worker EXCEPT ![w] = [pc |-> "polling", job |-> NoJob]]
    BY <1>1 DEF execute, Enter
  <2>2. worker[w].job \in Jobs
    BY <2>1 DEF LoadedInv
  <2>3. JobsTypeOK'
    BY <2>1, <2>2 DEF JobsTypeOK
  <2>4. LoadedInv'
    BY <2>1, <2>2 DEF JobsTypeOK, LoadedInv
  <2>5. /\ \A v \in Workers, j \in Jobs : Holds(v, j)' => Holds(v, j)
        /\ \A v \in Workers : worker'[v].pc = "failing" => worker[v].pc = "failing"
    BY <2>1, <2>2 DEF JobsTypeOK, Holds
  <2>6. ClaimInv'
    BY <2>1, <2>5 DEF ClaimInv
  <2> QED
    BY <2>3, <2>4, <2>6
<1>2. CASE succeed(w)
  <2>1. worker[w].job \in Jobs
    BY <1>2 DEF LoadedInv, succeed
  <2>2. JobsTypeOK'
    <3>1. jobs' \in [Jobs -> JobRows]
      BY <1>2, <2>1 DEF JobsTypeOK, JobRows, JobStatuses, Settled, succeed
    <3>2. /\ worker' = [worker EXCEPT ![w] = [pc |-> "polling", job |-> NoJob]]
          /\ UNCHANGED <<loaded, taken, orphaned, faults, retries>>
      BY <1>2 DEF succeed, Enter
    <3> QED
      BY <3>1, <3>2 DEF JobsTypeOK
  <2>3. LoadedInv' /\ ClaimInv'
    BY <1>2, <2>1 DEF JobsTypeOK, JobRows, LoadedInv, ClaimInv, Holds, succeed, Enter
  <2> QED
    BY <2>2, <2>3
<1>3. CASE raise(w)
  <2>1. worker[w].job \in Jobs
    BY <1>3 DEF LoadedInv, raise
  <2>2. JobsTypeOK' /\ LoadedInv'
    BY <1>3, <2>1 DEF JobsTypeOK, LoadedInv, raise, Enter
  <2>3. ClaimInv'
    BY <1>3, <2>1 DEF JobsTypeOK, JobRows, LoadedInv, ClaimInv, Holds, raise, Enter
  <2> QED
    BY <2>2, <2>3
<1>4. CASE die(w)
  <2>1. JobsTypeOK'
    BY <1>4, KnowledgeJobsAssumption DEF JobsTypeOK, LoadedInv, die, Enter, Forget
  <2>2. LoadedInv' /\ ClaimInv'
    BY <1>4 DEF JobsTypeOK, LoadedInv, ClaimInv, Holds, die, Enter, Forget
  <2> QED
    BY <2>1, <2>2
<1>5. CASE execution_unrecorded(w)
  <2>1. worker[w].job \in Jobs
    BY <1>5 DEF LoadedInv, execution_unrecorded
  <2>2. JobsTypeOK'
    BY <1>5, <2>1, KnowledgeJobsAssumption
       DEF JobsTypeOK, LoadedInv, execution_unrecorded, Enter, Forget
  <2>3. LoadedInv' /\ ClaimInv'
    BY <1>5 DEF JobsTypeOK, LoadedInv, ClaimInv, Holds, execution_unrecorded, Enter, Forget
  <2> QED
    BY <2>2, <2>3
<1> QED
  BY <1>1, <1>2, <1>3, <1>4, <1>5

\* A success whose commit was not answered: nothing is claimed of the job any more.
LEMMA UnansweredKeepsJobInv ==
  ASSUME JobInv, NEW w \in Workers, success_unanswered(w)
  PROVE  JobInv'
<1> USE DEF JobInv
<1> DEFINE i == worker[w].job
<1>1. /\ worker[w].pc = "executing" /\ faults < MaxFaults /\ faults' = faults + 1
      /\ jobs' = [jobs EXCEPT ![i].status = "succeeded"]
      /\ loaded' = [loaded EXCEPT ![w] = [j \in {i} |-> jobs'[j]]]
      /\ taken' = taken \cup {i}
      /\ worker' = [worker EXCEPT ![w] = [pc |-> "failing", job |-> i]]
      /\ UNCHANGED <<orphaned, retries>>
  BY DEF success_unanswered, Enter
<1>2. i \in Jobs
  BY <1>1 DEF LoadedInv
<1>3. jobs' \in [Jobs -> JobRows]
  BY <1>1, <1>2 DEF JobsTypeOK, JobRows, JobStatuses, Settled
<1>4. /\ DOMAIN loaded' = Workers /\ loaded'[w] = [j \in {i} |-> jobs'[j]]
      /\ \A v \in Workers \ {w} : loaded'[v] = loaded[v]
  BY <1>1 DEF LoadedInv
<1>5. JobsTypeOK'
  BY <1>1, <1>2, <1>3, <1>4, KnowledgeJobsAssumption DEF JobsTypeOK
<1>6. LoadedInv'
  BY <1>1, <1>2, <1>3, <1>4 DEF JobsTypeOK, LoadedInv
<1>7. /\ \A j \in Jobs \ taken' : j # i /\ j \notin taken /\ jobs'[j] = jobs[j]
      /\ \A v \in Workers, j \in Jobs \ taken' : Holds(v, j)' => v # w /\ Holds(v, j)
      /\ \A v \in Workers \ {w} : worker'[v] = worker[v]
  BY <1>1, <1>2 DEF JobsTypeOK, Holds
<1>8. ClaimInv'
  BY <1>4, <1>7 DEF ClaimInv
<1> QED
  BY <1>5, <1>6, <1>8

\* The failure of an execution, by the row that was read.
LEMMA FailureRecorded ==
  ASSUME JobInv, NEW w \in Workers, record_failure(w)
  PROVE  LET j == worker[w].job IN
         /\ j \in Jobs /\ jobs' \in [Jobs -> JobRows]
         /\ \A i \in Jobs \ {j} : jobs'[i] = jobs[i]
         /\ jobs'[j].attempts = jobs[j].attempts
         /\ j \notin taken => /\ jobs[j].status = "running"
                              /\ jobs'[j].status = After(jobs[j].attempts)
<1> DEFINE j == worker[w].job
<1> USE DEF JobInv
<1>1. j \in Jobs /\ j \in DOMAIN loaded[w] /\ worker[w].pc = "failing"
  BY DEF LoadedInv, record_failure
<1>2. jobs[j] \in JobRows /\ loaded[w][j] \in JobRows
  BY <1>1 DEF JobsTypeOK, LoadedInv
<1>3. jobs' = [jobs EXCEPT ![j] = Flushed(jobs[j], loaded[w][j], PutBack(loaded[w][j]))]
  BY DEF record_failure
<1>4. LET put == Flushed(jobs[j], loaded[w][j], PutBack(loaded[w][j])) IN
      /\ put \in JobRows /\ put.attempts = jobs[j].attempts
      /\ put.status = IF After(loaded[w][j].attempts) = loaded[w][j].status THEN jobs[j].status
                      ELSE After(loaded[w][j].attempts)
  BY <1>2, FlushedRow
<1>5. /\ jobs' \in [Jobs -> JobRows] /\ jobs'[j].attempts = jobs[j].attempts
      /\ jobs'[j].status = IF After(loaded[w][j].attempts) = loaded[w][j].status
                           THEN jobs[j].status ELSE After(loaded[w][j].attempts)
      /\ \A i \in Jobs \ {j} : jobs'[i] = jobs[i]
  BY <1>1, <1>3, <1>4 DEF JobsTypeOK
<1>6. ASSUME j \notin taken
      PROVE  /\ jobs[j].status = "running" /\ loaded[w][j].status = "running"
             /\ loaded[w][j].attempts = jobs[j].attempts
  BY <1>1, <1>6 DEF ClaimInv, Holds
<1> QED
  BY <1>1, <1>5, <1>6 DEF After

LEMMA FailureKeepsJobInv ==
  ASSUME JobInv, NEW w \in Workers, record_failure(w)
  PROVE  JobInv'
<1> DEFINE j == worker[w].job
<1> USE DEF JobInv
<1>1. /\ worker' = [worker EXCEPT ![w] = [pc |-> "polling", job |-> NoJob]]
      /\ loaded' = [loaded EXCEPT ![w] = [i \in {} |-> NoRow]]
      /\ worker[w].pc = "failing"
      /\ UNCHANGED <<taken, orphaned, faults, retries>>
  BY DEF record_failure, Enter, Forget
<1>2. JobsTypeOK'
  BY <1>1, FailureRecorded DEF JobsTypeOK, LoadedInv
<1>3. LoadedInv'
  BY <1>1 DEF JobsTypeOK, LoadedInv
<1>4. ClaimInv'
  <2> SUFFICES ASSUME NEW i \in Jobs \ taken
               PROVE  /\ \A v \in Workers : Holds(v, i)' => jobs'[i].status = "running"
                      /\ \A u, v \in Workers : Holds(u, i)' /\ Holds(v, i)' => u = v
                      /\ \A v \in Workers : Holds(v, i)' /\ worker'[v].pc = "failing" =>
                           /\ loaded'[v][i].status = "running"
                           /\ loaded'[v][i].attempts = jobs'[i].attempts
                      /\ jobs'[i].attempts =< MaxAttempts
                      /\ jobs'[i].status = "queued" => jobs'[i].attempts < MaxAttempts
                      /\ jobs'[i].status = "none" => jobs'[i].attempts = 0
    BY <1>1 DEF ClaimInv
  <2>1. /\ \A v \in Workers : Holds(v, i)' => v # w /\ Holds(v, i)
        /\ \A v \in Workers \ {w} : worker'[v] = worker[v] /\ loaded'[v] = loaded[v]
    BY <1>1 DEF Holds, JobsTypeOK, LoadedInv
  <2>2. CASE i # j
    BY <2>1, <2>2, FailureRecorded DEF ClaimInv
  <2>3. CASE i = j
    <3>1. Holds(w, i)
      BY <1>1, <2>3 DEF Holds
    <3>2. \A v \in Workers : ~Holds(v, i)'
      BY <2>1, <3>1 DEF ClaimInv
    <3>3. /\ jobs'[i].attempts = jobs[i].attempts
          /\ jobs'[i].status = After(jobs[i].attempts)
      BY <2>3, FailureRecorded
    <3> QED
      BY <3>2, <3>3 DEF ClaimInv, After
  <2> QED
    BY <2>2, <2>3
<1> QED
  BY <1>2, <1>3, <1>4

---------------------------------------------------------------------------
\* A section whose base version exists has a last version.
LEMMA LastVersionExists ==
  ASSUME NEW s \in Sections, Exists(Base(s))
  PROVE  LastVersion(s) \in 1..MaxVersion
<1> DEFINE D == {d \in Nat : \E n \in 1..MaxVersion : d = MaxVersion - n /\ Exists(<<s, n>>)}
<1>1. D \subseteq Nat /\ MaxVersion - 1 \in D
  BY KnowledgeUnitsAssumption DEF Base
<1>2. PICK d \in D : \A e \in D : ~(<<e, d>> \in OpToRel(<, Nat))
  <2>1. D # {}
    BY <1>1
  <2> HIDE DEF D
  <2> QED
    BY <1>1, <2>1, NatLessThanWellFounded, WFMin
<1>3. \A e \in D : ~(e < d)
  BY <1>2 DEF OpToRel
<1>4. PICK n \in 1..MaxVersion : d = MaxVersion - n /\ Exists(<<s, n>>)
  OBVIOUS
<1>5. \A m \in (n + 1)..MaxVersion : ~Exists(<<s, m>>)
  <2> SUFFICES ASSUME NEW m \in (n + 1)..MaxVersion, Exists(<<s, m>>) PROVE FALSE
    OBVIOUS
  <2>1. MaxVersion - m \in D /\ MaxVersion - m < d
    BY <1>4, KnowledgeUnitsAssumption
  <2> QED
    BY <1>3, <2>1
<1> QED
  BY <1>4, <1>5 DEF LastVersion

\* What a step of crawl, embedding, detection or review may do to the texts.
TextsKept ==
  /\ UnitsTypeOK' /\ TextInv'
  /\ \A u \in Unit : approved[u] \subseteq approved'[u]

LEMMA TaskMoves ==
  ASSUME NEW t \in TaskRows, NEW b \in UnitRows, NEW n \in 0..(MaxVersion + 1),
         NEW pc \in {"idle", "fetched", "flush", "dedupe", "done"}
  PROVE  /\ [t EXCEPT !.pc = pc] \in TaskRows
         /\ [t EXCEPT !.pc = pc, !.base = b, !.next = n] \in TaskRows
<1> QED
  BY DEF TaskRows

LEMMA CrawlKeepsTexts ==
  ASSUME UnitsTypeOK, TextInv, NEW w \in Crawlers,
         ingest_page(w) \/ exclude_page(w) \/ page_fails(w) \/ retire_duplicates(w)
  PROVE  TextsKept
<1> USE DEF TextsKept, Quiet, Still, Move, At, Exists, Open
<1>1. CASE ingest_page(w) \/ page_fails(w)
  <2>1. Idle \in TaskRows
    BY KnowledgeUnitsAssumption DEF Idle, NoUnit, TaskRows, UnitRows, Contents
  <2>2. task' \in [Crawlers -> TaskRows]
    <3>1. [Idle EXCEPT !.pc = "fetched", !.content = page] \in TaskRows
      BY <2>1 DEF UnitsTypeOK, TaskRows
    <3>2. task' = [task EXCEPT ![w].pc = "dedupe"]
          \/ task' = [task EXCEPT ![w] = [Idle EXCEPT !.pc = "fetched", !.content = page]]
      BY <1>1 DEF ingest_page, page_fails
    <3>3. [task[w] EXCEPT !.pc = "dedupe"] \in TaskRows
      BY DEF UnitsTypeOK, TaskRows
    <3> QED
      BY <3>1, <3>2, <3>3 DEF UnitsTypeOK
  <2>3. \A x \in Crawlers : task'[x].pc = "flush" => task'[x] = task[x]
    BY <1>1 DEF UnitsTypeOK, TaskRows, ingest_page, page_fails, Idle
  <2>4. UNCHANGED <<page, normalized, units, embedded, conflict, approved, raced, edits, reviews>>
    BY <1>1 DEF ingest_page, page_fails
  <2>5. UnitsTypeOK'
    BY <2>2, <2>4 DEF UnitsTypeOK
  <2>6. TextInv'
    BY <2>3, <2>4 DEF TextInv
  <2> QED
    BY <2>4, <2>5, <2>6
<1>2. CASE exclude_page(w)
  BY <1>2 DEF UnitsTypeOK, TextInv, UnitRows, TaskRows, exclude_page
<1>3. CASE retire_duplicates(w)
  BY <1>3 DEF UnitsTypeOK, TextInv, UnitRows, TaskRows, retire_duplicates
<1> QED
  BY <1>1, <1>2, <1>3

LEMMA UpsertReadKeepsTexts ==
  ASSUME UnitsTypeOK, TextInv, NEW w \in Crawlers, upsert_read(w)
  PROVE  TextsKept
<1> DEFINE s == task[w].content[1]
           base == units[Base(s)]
<1> USE DEF TextsKept, Quiet, Still, At
<1>1. task[w].content \in Sections \X Texts /\ base \in UnitRows
  BY KnowledgeUnitsAssumption DEF upsert_read, UnitsTypeOK, TaskRows, Contents, Excluded, Base, Unit
<1>2. base.status \in {"approved", "retired"} => LastVersion(s) \in 1..MaxVersion
  BY <1>1, LastVersionExists DEF Exists
<1>3. PICK n \in 0..(MaxVersion + 1) :
        /\ task' = [task EXCEPT ![w].pc = "flush", ![w].base = base, ![w].next = n]
        /\ base.status \in {"approved", "retired"} /\ base.text # task[w].content[2] => n > 1
  <2>1. CASE base.status \in {"approved", "retired"} /\ base.text # task[w].content[2]
    <3>1. LastVersion(s) + 1 \in 0..(MaxVersion + 1) /\ LastVersion(s) + 1 > 1
      BY <1>2, <2>1, KnowledgeUnitsAssumption
    <3> QED
      BY <2>1, <3>1 DEF upsert_read
  <2>2. CASE ~(base.status \in {"approved", "retired"} /\ base.text # task[w].content[2])
    <3>1. 1 \in 0..(MaxVersion + 1)
      BY KnowledgeUnitsAssumption
    <3> QED
      BY <2>2, <3>1 DEF upsert_read
  <2> QED
    BY <2>1, <2>2
<1>4. UNCHANGED <<page, edits, approved, reviews, normalized, units, embedded, conflict, raced>>
  BY DEF upsert_read
<1>5. task' \in [Crawlers -> TaskRows]
  <2>1. [task[w] EXCEPT !.pc = "flush", !.base = base, !.next = n] \in TaskRows
    <3>1. task[w] \in TaskRows
      BY DEF UnitsTypeOK
    <3> HIDE DEF base
    <3> QED
      BY <1>1, <3>1, TaskMoves
  <2>2. task' = [task EXCEPT ![w] = [task[w] EXCEPT !.pc = "flush", !.base = base, !.next = n]]
    BY <1>3
  <2> QED
    BY <2>1, <2>2 DEF UnitsTypeOK
<1>6. UnitsTypeOK'
  BY <1>4, <1>5 DEF UnitsTypeOK
<1>7. TextInv'
  <2>1. /\ task'[w].content = task[w].content /\ task'[w].base = base /\ task'[w].next = n
        /\ \A x \in Crawlers \ {w} : task'[x] = task[x]
    BY <1>3 DEF UnitsTypeOK, TaskRows
  <2>2. base.status \notin {"approved", "retired"} \/ base.text = task[w].content[2] \/ n > 1
    BY <1>3
  <2> HIDE DEF base
  <2> QED
    BY <1>1, <1>4, <2>1, <2>2 DEF TextInv, Exists
<1> QED
  BY <1>4, <1>6, <1>7

\* A version that a crawl writes over is a draft, a unit it has raced, or new.
LEMMA UpsertWriteKeepsTexts ==
  ASSUME UnitsTypeOK, TextInv, NEW w \in Crawlers, upsert_write(w)
  PROVE  TextsKept
<1> DEFINE s == task[w].content[1]
           text == task[w].content[2]
           base == task[w].base
           u == <<s, target(base, text, task[w].next)>>
           unchanged == base.status # "none" /\ base.text = text
           insert == ~unchanged /\ (base.status = "none" \/ u # Base(s))
<1> USE DEF TextsKept, Quiet, Move, At
<1>1. /\ At(w, "flush") /\ u \in Unit /\ (insert => ~Exists(u))
      /\ units' = [v \in Unit |->
           IF v = u
           THEN IF unchanged THEN units[v]
                ELSE IF insert THEN [status |-> "draft", text |-> text]
                ELSE [units[v] EXCEPT !.text = text]
           ELSE IF Open(v) THEN [units[v] EXCEPT !.status = "retired"] ELSE units[v]]
      /\ raced' = IF base.status = "draft" /\ ~unchanged /\ units[u].status # "draft"
                  THEN raced \cup {u} ELSE raced
      /\ normalized' = normalized \cup {task[w].content}
      /\ task' = [task EXCEPT ![w].pc = "dedupe"]
      /\ UNCHANGED <<page, edits, approved, reviews, embedded, conflict>>
  BY DEF upsert_write
<1>2. task[w].content \in Sections \X Texts /\ text \in Texts /\ base \in UnitRows
  BY <1>1 DEF TextInv, UnitsTypeOK, TaskRows
<1>3. UnitsTypeOK'
  <2>1. units' \in [Unit -> UnitRows]
    BY <1>1, <1>2 DEF UnitsTypeOK, UnitRows
  <2>2. normalized' \subseteq Contents /\ raced' \subseteq Unit
    BY <1>1, <1>2 DEF UnitsTypeOK, Contents
  <2>3. task' \in [Crawlers -> TaskRows]
    BY <1>1 DEF UnitsTypeOK, TaskRows
  <2> QED
    BY <1>1, <2>1, <2>2, <2>3 DEF UnitsTypeOK
<1>4. ~unchanged /\ ~insert => base.status = "draft"
  <2> SUFFICES ASSUME ~unchanged, ~insert, base.status # "draft" PROVE FALSE
    OBVIOUS
  <2>1. base.status \in {"approved", "retired"} /\ base.text # text
    BY <1>2 DEF UnitRows
  <2>2. task[w].next > 1 /\ target(base, text, task[w].next) = task[w].next
    BY <1>1, <2>1 DEF TextInv, target
  <2>3. target(base, text, task[w].next) = 1
    BY DEF Base
  <2> QED
    BY <2>2, <2>3
<1>5. TextInv'
  <2>1. ASSUME NEW v \in Unit
        PROVE  /\ units'[v].status # "none" => units'[v].text \in Texts \cup {Spoken}
               /\ approved'[v] # {} => units'[v].text \in approved'[v] \/ v \in raced'
               /\ units'[v].status = "approved" => approved'[v] # {}
               /\ units'[v].status \in {"none", "draft"} => approved'[v] = {}
    <3>1. /\ units[v].status # "none" => units[v].text \in Texts \cup {Spoken}
          /\ approved[v] # {} => units[v].text \in approved[v] \/ v \in raced
          /\ units[v].status = "approved" => approved[v] # {}
          /\ units[v].status \in {"none", "draft"} => approved[v] = {}
          /\ units[v] \in UnitRows
      BY DEF TextInv, UnitsTypeOK, Exists
    <3>2. CASE v # u
      BY <1>1, <3>1, <3>2 DEF UnitRows, Open
    <3>3. CASE v = u /\ unchanged
      BY <1>1, <3>1, <3>3
    <3>4. CASE v = u /\ insert
      BY <1>1, <1>2, <3>1, <3>4 DEF Exists
    <3>5. CASE v = u /\ ~unchanged /\ ~insert
      BY <1>1, <1>2, <1>4, <3>1, <3>5 DEF UnitRows
    <3> QED
      BY <3>2, <3>3, <3>4, <3>5
  <2>2. \A x \in Crawlers : task'[x].pc = "flush" => task'[x] = task[x] /\ task[x].pc = "flush"
    BY <1>1 DEF UnitsTypeOK
  <2> QED
    BY <2>1, <2>2 DEF TextInv, Exists
<1> QED
  BY <1>1, <1>3, <1>5

LEMMA OtherJobsKeepTexts ==
  ASSUME UnitsTypeOK, TextInv, NEW w \in Crawlers,
         embed_units(w) \/ detect_knowledge_conflicts(w)
  PROVE  TextsKept
<1> USE DEF TextsKept, Quiet, Move, At
<1>1. task' = [task EXCEPT ![w].pc = "done"]
  BY DEF embed_units, detect_knowledge_conflicts
<1>2. UNCHANGED <<page, normalized, units, approved, raced, edits, reviews>>
  BY DEF embed_units, detect_knowledge_conflicts
<1>3. embedded' \subseteq Unit /\ conflict' \in [Pairs -> {"none", "open", "decided"}]
  BY DEF UnitsTypeOK, embed_units, detect_knowledge_conflicts
<1>4. task' \in [Crawlers -> TaskRows]
  BY <1>1 DEF UnitsTypeOK, TaskRows
<1>5. UnitsTypeOK'
  BY <1>2, <1>3, <1>4 DEF UnitsTypeOK
<1>6. \A x \in Crawlers : task'[x].pc = "flush" => task'[x] = task[x]
  BY <1>1 DEF UnitsTypeOK, TaskRows
<1>7. TextInv'
  BY <1>2, <1>6 DEF TextInv, Exists
<1> QED
  BY <1>2, <1>5, <1>7

LEMMA ReviewKeepsTexts ==
  ASSUME UnitsTypeOK, TextInv, Review \/ page_changes
  PROVE  TextsKept
<1> USE DEF TextsKept, Exists, At
<1>1. CASE page_changes
  BY <1>1, KnowledgeUnitsAssumption DEF page_changes, UnitsTypeOK, TextInv
<1>2. CASE Review
  <2>1. /\ UNCHANGED <<page, normalized, embedded, task, raced, edits>>
        /\ reviews' \in 0..MaxReviews
    BY <1>2, KnowledgeUnitsAssumption DEF Review, UnitsTypeOK
  <2>2. CASE \E u \in Unit : approve_unit(u)
    <3>1. PICK u \in Unit, text \in Texts \cup {Spoken, "none"} :
            /\ text \in {units[u].text, Spoken} /\ units[u].status # "none"
            /\ units' = [units EXCEPT ![u] = [status |-> "approved", text |-> text]]
            /\ approved' = [approved EXCEPT ![u] = @ \cup {text}]
            /\ UNCHANGED conflict
      BY <2>2 DEF approve_unit, UnitsTypeOK, UnitRows
    <3>2. units' \in [Unit -> UnitRows]
      BY <3>1 DEF UnitsTypeOK, UnitRows
    <3>3. text \in Texts \cup {Spoken}
      BY <3>1 DEF TextInv
    <3>4. approved' \in [Unit -> SUBSET (Texts \cup {Spoken})]
      BY <3>1, <3>3 DEF UnitsTypeOK
    <3>5. UnitsTypeOK'
      BY <2>1, <3>1, <3>2, <3>4 DEF UnitsTypeOK
    <3>6. TextInv'
      BY <2>1, <3>1, <3>3 DEF UnitsTypeOK, UnitRows, TextInv
    <3>7. \A v \in Unit : approved[v] \subseteq approved'[v]
      BY <3>1 DEF UnitsTypeOK
    <3> QED
      BY <3>5, <3>6, <3>7
  <2>3. CASE \E u \in Unit : retire_unit(u)
    BY <2>1, <2>3 DEF retire_unit, UnitsTypeOK, UnitRows, TextInv
  <2>4. CASE \E p \in Pairs : resolve_conflict(p)
    BY <2>1, <2>4 DEF resolve_conflict, UnitsTypeOK, TextInv
  <2> QED
    BY <1>2, <2>2, <2>3, <2>4 DEF Review
<1> QED
  BY <1>1, <1>2

LEMMA SessionEndKeepsTexts ==
  ASSUME UnitsTypeOK, TextInv, NEW w \in Crawlers, SessionEnds(w)
  PROVE  TextsKept
<1>1. task' = [task EXCEPT ![w] = Idle]
  BY DEF SessionEnds
<1>2. UNCHANGED <<page, normalized, units, embedded, conflict, approved, raced, edits, reviews>>
  BY DEF SessionEnds
<1>3. Idle \in TaskRows
  BY KnowledgeUnitsAssumption DEF Idle, NoUnit, TaskRows, UnitRows, Contents
<1>4. task' \in [Crawlers -> TaskRows]
  BY <1>1, <1>3 DEF UnitsTypeOK
<1>5. UnitsTypeOK'
  BY <1>2, <1>4 DEF UnitsTypeOK
<1>6. \A x \in Crawlers : At(x, "flush")' => task'[x] = task[x]
  BY <1>1 DEF UnitsTypeOK, At, Idle
<1>7. TextInv'
  BY <1>2, <1>6 DEF TextInv, At, Exists
<1> QED
  BY <1>2, <1>5, <1>7 DEF TextsKept

---------------------------------------------------------------------------
\* The releases.
LEMMA CreateKeepsLocks ==
  ASSUME ReleasesTypeOK, LockInv, MembersInv, NEW r \in Releases, create_release(r)
  PROVE  ReleasesTypeOK' /\ LockInv' /\ (UNCHANGED approved => MembersInv')
<1>1. PICK us \in SUBSET Unit :
        /\ release[r] = "none" /\ release' = [release EXCEPT ![r] = "draft"]
        /\ members' = [members EXCEPT ![r] = us]
        /\ UNCHANGED <<lock, txn>>
  BY DEF create_release
<1>2. ReleasesTypeOK'
  BY <1>1 DEF ReleasesTypeOK
<1>3. LockInv'
  BY <1>1 DEF ReleasesTypeOK, LockInv, Required
<1>4. UNCHANGED approved => MembersInv'
  BY <1>1 DEF ReleasesTypeOK, LockInv, MembersInv, Served, Required
<1> QED
  BY <1>2, <1>3, <1>4

\* A transaction's next row: the others' are as they were.
LEMMA NextRow ==
  ASSUME ReleasesTypeOK, NEW a \in Admins, NEW row \in Transactions,
         txn' = [txn EXCEPT ![a] = row]
  PROVE  txn' \in [Admins -> Transactions] /\ txn'[a] = row
         /\ \A b \in Admins \ {a} : txn'[b] = txn[b]
<1> QED
  BY DEF ReleasesTypeOK

LEMMA LockTargetKeepsLocks ==
  ASSUME ReleasesTypeOK, LockInv, MembersInv, NEW a \in Admins,
         publish_release(a) \/ rollback_release(a)
  PROVE  ReleasesTypeOK' /\ LockInv' /\ (UNCHANGED approved => MembersInv')
<1>1. PICK kind \in {"publish", "rollback"}, r \in Releases : lock_target(a, kind, r)
  BY DEF publish_release, rollback_release
<1> DEFINE row == [Closed EXCEPT !.pc = "validate", !.kind = kind, !.target = r]
<1> HIDE DEF row
<1>2. /\ txn[a].pc = "none" /\ lock[r] = NoAdmin /\ release[r] = Required(kind)
      /\ lock' = [lock EXCEPT ![r] = a]
      /\ txn' = [txn EXCEPT ![a] = row]
      /\ UNCHANGED <<release, members>>
  BY <1>1 DEF lock_target, row
<1>3. row \in Transactions /\ row.pc = "validate" /\ row.kind = kind /\ row.target = r
  BY DEF Transactions, Closed, row
<1>4. /\ txn' \in [Admins -> Transactions] /\ txn'[a] = row
      /\ \A b \in Admins \ {a} : txn'[b] = txn[b]
  BY <1>2, <1>3, NextRow
<1>5. ReleasesTypeOK'
  BY <1>2, <1>4 DEF ReleasesTypeOK
<1>6. LockInv'
  BY <1>2, <1>3, <1>4, KnowledgeReleasesAssumption DEF ReleasesTypeOK, LockInv, Required
<1>7. UNCHANGED approved => MembersInv'
  BY <1>2, <1>3, <1>4 DEF MembersInv, Served
<1> QED
  BY <1>5, <1>6, <1>7

LEMMA LookKeepsLocks ==
  ASSUME ReleasesTypeOK, LockInv, MembersInv, NEW a \in Admins, look_for_current(a)
  PROVE  ReleasesTypeOK' /\ LockInv' /\ (UNCHANGED approved => MembersInv')
<1>1. PICK r \in Releases \cup {NoRelease} :
        /\ txn[a].pc = "look"
        /\ txn' = [txn EXCEPT ![a] = [txn[a] EXCEPT !.pc = "lock", !.current = r]]
        /\ UNCHANGED <<release, members, lock>>
  BY DEF look_for_current
<1>2. [txn[a] EXCEPT !.pc = "lock", !.current = r] \in Transactions
  BY DEF ReleasesTypeOK, Transactions
<1>3. /\ txn' \in [Admins -> Transactions]
      /\ txn'[a].pc = "lock" /\ txn'[a].kind = txn[a].kind /\ txn'[a].target = txn[a].target
      /\ \A b \in Admins \ {a} : txn'[b] = txn[b]
  BY <1>1, <1>2, NextRow DEF ReleasesTypeOK, Transactions
<1>4. ReleasesTypeOK'
  BY <1>1, <1>3 DEF ReleasesTypeOK
<1>5. LockInv'
  BY <1>1, <1>3 DEF LockInv, Required
<1>6. UNCHANGED approved => MembersInv'
  BY <1>1, <1>3 DEF MembersInv, Served
<1> QED
  BY <1>4, <1>5, <1>6

\* A transaction goes on to its commit with the row it found, or with none.
LEMMA CommitRowKeepsLocks ==
  ASSUME ReleasesTypeOK, LockInv, MembersInv, NEW a \in Admins, NEW row \in Transactions,
         txn[a].pc = "lock", txn' = [txn EXCEPT ![a] = row],
         row.pc = "commit", row.kind = txn[a].kind, row.target = txn[a].target,
         UNCHANGED <<release, members>>, lock' \in [Releases -> Admins \cup {NoAdmin}],
         \A p \in Releases : lock[p] # NoAdmin => lock'[p] = lock[p],
         row.current # NoRelease =>
           lock'[row.current] = a /\ release[row.current] = "published"
  PROVE  ReleasesTypeOK' /\ LockInv' /\ (UNCHANGED approved => MembersInv')
<1>1. /\ txn' \in [Admins -> Transactions] /\ txn'[a] = row
      /\ \A b \in Admins \ {a} : txn'[b] = txn[b]
  BY NextRow
<1>2. ReleasesTypeOK'
  BY <1>1 DEF ReleasesTypeOK
<1>3. LockInv'
  <2> SUFFICES ASSUME NEW b \in Admins, txn'[b].pc # "none"
               PROVE  /\ txn'[b].target \in Releases
                      /\ lock'[txn'[b].target] = b
                      /\ release[txn'[b].target] = Required(txn'[b].kind)
                      /\ txn'[b].pc = "commit" /\ txn'[b].current # NoRelease =>
                           /\ lock'[txn'[b].current] = b
                           /\ release[txn'[b].current] = "published"
    BY DEF LockInv, Required
  <2>1. b # NoAdmin
    BY KnowledgeReleasesAssumption
  <2>2. CASE b = a
    BY <1>1, <2>1, <2>2 DEF LockInv
  <2>3. CASE b # a
    <3>1. txn'[b] = txn[b] /\ txn[b] \in Transactions
      BY <1>1, <2>3 DEF ReleasesTypeOK
    <3>2. txn[b].current \in Releases \cup {NoRelease}
      BY <3>1 DEF Transactions
    <3> QED
      BY <2>1, <3>1, <3>2 DEF LockInv
  <2> QED
    BY <2>2, <2>3
<1>4. UNCHANGED approved => MembersInv'
  BY <1>1 DEF MembersInv, Served
<1> QED
  BY <1>2, <1>3, <1>4

LEMMA LockCurrentKeepsLocks ==
  ASSUME ReleasesTypeOK, LockInv, MembersInv, NEW a \in Admins, lock_current(a)
  PROVE  ReleasesTypeOK' /\ LockInv' /\ (UNCHANGED approved => MembersInv')
<1> DEFINE r == txn[a].current
           goesOn == [txn[a] EXCEPT !.pc = "commit"]
           finds == [txn[a] EXCEPT !.pc = "commit", !.current = NoRelease]
<1>1. /\ txn[a].pc = "lock" /\ UNCHANGED <<release, members>>
      /\ \/ /\ r # NoRelease /\ lock[r] = NoAdmin /\ release[r] = "published"
            /\ lock' = [lock EXCEPT ![r] = a]
            /\ txn' = [txn EXCEPT ![a] = goesOn]
         \/ /\ r = NoRelease /\ lock' = lock
            /\ txn' = [txn EXCEPT ![a] = goesOn]
         \/ /\ lock' = lock
            /\ txn' = [txn EXCEPT ![a] = finds]
  BY DEF lock_current, still_current
<1>2. txn[a] \in Transactions /\ lock \in [Releases -> Admins \cup {NoAdmin}]
  BY DEF ReleasesTypeOK
<1>3. /\ r \in Releases \cup {NoRelease}
      /\ goesOn \in Transactions /\ goesOn.pc = "commit" /\ goesOn.kind = txn[a].kind
      /\ goesOn.target = txn[a].target /\ goesOn.current = r
      /\ finds \in Transactions /\ finds.pc = "commit" /\ finds.kind = txn[a].kind
      /\ finds.target = txn[a].target /\ finds.current = NoRelease
  BY <1>2 DEF Transactions
<1> HIDE DEF r, goesOn, finds
<1>4. CASE /\ r # NoRelease /\ lock[r] = NoAdmin /\ release[r] = "published"
           /\ lock' = [lock EXCEPT ![r] = a]
           /\ txn' = [txn EXCEPT ![a] = goesOn]
  <2>1. /\ lock' \in [Releases -> Admins \cup {NoAdmin}] /\ lock'[r] = a
        /\ \A p \in Releases : lock[p] # NoAdmin => lock'[p] = lock[p]
    BY <1>2, <1>3, <1>4
  <2> QED
    BY <1>1, <1>3, <1>4, <2>1, CommitRowKeepsLocks
<1>5. CASE r = NoRelease /\ lock' = lock /\ txn' = [txn EXCEPT ![a] = goesOn]
  BY <1>1, <1>2, <1>3, <1>5, CommitRowKeepsLocks
<1>6. CASE lock' = lock /\ txn' = [txn EXCEPT ![a] = finds]
  BY <1>1, <1>2, <1>3, <1>6, CommitRowKeepsLocks
<1> QED
  BY <1>1, <1>4, <1>5, <1>6

LEMMA RaiseKeepsLocks ==
  ASSUME ReleasesTypeOK, LockInv, MembersInv, NEW a \in Admins, Raise(a)
  PROVE  ReleasesTypeOK' /\ LockInv' /\ (UNCHANGED approved => MembersInv')
<1>1. /\ lock' = [r \in Releases |-> IF lock[r] = a THEN NoAdmin ELSE lock[r]]
      /\ txn' = [txn EXCEPT ![a] = Closed] /\ UNCHANGED <<release, members>>
  BY DEF Raise, Release
<1>2. Closed \in Transactions /\ Closed.pc = "none"
  BY DEF Closed, Transactions
<1>3. /\ txn' \in [Admins -> Transactions] /\ txn'[a] = Closed
      /\ \A b \in Admins \ {a} : txn'[b] = txn[b]
  BY <1>1, <1>2, NextRow
<1>4. ReleasesTypeOK'
  BY <1>1, <1>3 DEF ReleasesTypeOK
<1>5. LockInv'
  BY <1>1, <1>2, <1>3 DEF ReleasesTypeOK, LockInv, Transactions
<1>6. UNCHANGED approved => MembersInv'
  BY <1>1, <1>2, <1>3 DEF MembersInv, Served
<1> QED
  BY <1>4, <1>5, <1>6

LEMMA ValidateKeepsLocks ==
  ASSUME ReleasesTypeOK, LockInv, MembersInv, TextInv, NEW a \in Admins, validate_release(a)
  PROVE  ReleasesTypeOK' /\ LockInv' /\ (UNCHANGED approved => MembersInv')
<1> DEFINE r == txn[a].target
           row == [txn[a] EXCEPT !.pc = "look"]
<1>1. CASE Raise(a)
  BY <1>1, RaiseKeepsLocks
<1>2. CASE /\ txn[a].pc = "validate" /\ valid(r, txn[a].kind)
           /\ txn' = [txn EXCEPT ![a] = row]
           /\ UNCHANGED <<release, members, lock>>
  <2>1. txn[a] \in Transactions
    BY DEF ReleasesTypeOK
  <2>2. /\ row \in Transactions /\ row.pc = "look" /\ row.kind = txn[a].kind
        /\ row.target = r
    BY <2>1 DEF Transactions
  <2> HIDE DEF row
  <2>3. /\ txn' \in [Admins -> Transactions] /\ txn'[a] = row
        /\ \A b \in Admins \ {a} : txn'[b] = txn[b]
    BY <1>2, <2>2, NextRow
  <2>4. ReleasesTypeOK'
    BY <1>2, <2>3 DEF ReleasesTypeOK
  <2>5. LockInv'
    BY <1>2, <2>2, <2>3 DEF LockInv, Required
  <2>6. r \in Releases /\ release[r] = Required(txn[a].kind)
    BY <1>2 DEF LockInv
  <2>7. \A u \in members[r] : approved[u] # {}
    <3>1. CASE txn[a].kind = "publish"
      BY <1>2, <2>6, <3>1 DEF valid, TextInv, ReleasesTypeOK
    <3>2. CASE txn[a].kind = "rollback"
      BY <2>6, <3>2 DEF Required, MembersInv, Served
    <3> QED
      BY <2>1, <3>1, <3>2 DEF Transactions
  <2>8. UNCHANGED approved => MembersInv'
    BY <1>2, <2>2, <2>3, <2>7 DEF MembersInv, Served
  <2> QED
    BY <2>4, <2>5, <2>8
<1> QED
  BY <1>1, <1>2 DEF validate_release

\* A commit that the index admits: the target is the one release published.
LEMMA CommitKeepsLocks ==
  ASSUME ReleasesTypeOK, LockInv, MembersInv, NEW a \in Admins, commit_swap(a), ~Raise(a)
  PROVE  /\ ReleasesTypeOK' /\ LockInv' /\ (UNCHANGED approved => MembersInv')
         /\ txn[a].target \in Releases /\ release[txn[a].target] \in {"draft", "retired"}
         /\ release'[txn[a].target] = "published"
         /\ Served' = Served \cup {txn[a].target}
<1> DEFINE r == txn[a].target
           c == txn[a].current
<1>1. /\ txn[a].pc = "commit" /\ unique_published(a)
      /\ release' = [p \in Releases |-> IF p = r THEN "published"
                                       ELSE IF p = c THEN "retired" ELSE release[p]]
      /\ lock' = [p \in Releases |-> IF lock[p] = a THEN NoAdmin ELSE lock[p]]
      /\ txn' = [txn EXCEPT ![a] = Closed] /\ UNCHANGED members
  BY DEF commit_swap, Release
<1>2. Closed \in Transactions /\ Closed.pc = "none"
  BY DEF Closed, Transactions
<1>3. /\ txn' \in [Admins -> Transactions] /\ txn'[a] = Closed
      /\ \A b \in Admins \ {a} : txn'[b] = txn[b]
  BY <1>1, <1>2, NextRow
<1>4. /\ r \in Releases /\ lock[r] = a /\ release[r] \in {"draft", "retired"}
      /\ c # NoRelease => lock[c] = a /\ release[c] = "published"
      /\ \A p \in Releases : release[p] = "published" => p = c
  BY <1>1 DEF LockInv, Required, unique_published
<1>5. ReleasesTypeOK'
  BY <1>1, <1>3 DEF ReleasesTypeOK
<1>6. /\ \A p \in Releases : release'[p] = "published" => p = r
      /\ \A p \in Releases : lock[p] # a => release'[p] = release[p] /\ lock'[p] = lock[p]
      /\ \A p \in Releases : release'[p] \in {"published", "retired"} <=>
           p = r \/ release[p] \in {"published", "retired"}
  <2> HIDE DEF r, c
  <2>1. c = NoRelease => \A p \in Releases : release[p] # "published"
    BY <1>4, KnowledgeReleasesAssumption
  <2>2. \A p \in Releases : p = c => lock[p] = a /\ release[p] = "published"
    BY <1>4, <2>1, KnowledgeReleasesAssumption
  <2> QED
    BY <1>1, <1>4, <2>2
<1>7. LockInv'
  <2>1. ASSUME NEW b \in Admins, txn'[b].pc # "none"
        PROVE  /\ txn'[b].target \in Releases
               /\ lock'[txn'[b].target] = b
               /\ release'[txn'[b].target] = Required(txn'[b].kind)
               /\ txn'[b].pc = "commit" /\ txn'[b].current # NoRelease =>
                    /\ lock'[txn'[b].current] = b
                    /\ release'[txn'[b].current] = "published"
    <3>1. b # a /\ txn'[b] = txn[b] /\ txn[b] \in Transactions
      BY <1>2, <1>3, <2>1 DEF ReleasesTypeOK
    <3>2. txn[b].current \in Releases \cup {NoRelease}
      BY <3>1 DEF Transactions
    <3> QED
      BY <1>6, <2>1, <3>1, <3>2 DEF LockInv
  <2> QED
    BY <1>6, <2>1 DEF LockInv, Required
<1>8. Served' = Served \cup {r}
  BY <1>4, <1>6 DEF Served
<1>9. UNCHANGED approved => MembersInv'
  BY <1>1, <1>2, <1>3, <1>8 DEF MembersInv
<1> QED
  BY <1>1, <1>4, <1>5, <1>7, <1>8, <1>9

LEMMA ReleaseStepKeepsCorpusInv ==
  ASSUME CorpusInv, scope \in Scopes, ReleaseStep
  PROVE  CorpusInv'
<1>1. scope.releases \subseteq Releases /\ scope.admins \subseteq Admins
  BY KnowledgeControlAssumption DEF ScopeType
<1>2. UnitsTypeOK' /\ TextInv' /\ UNCHANGED approved
  BY DEF ReleaseStep, CorpusInv, unitVars, UnitsTypeOK, TextInv, Exists, At
<1>3. ReleasesTypeOK' /\ LockInv' /\ (UNCHANGED approved => MembersInv')
  <2>1. CASE \E r \in scope.releases : create_release(r)
    BY <1>1, <2>1, CreateKeepsLocks DEF CorpusInv
  <2>2. CASE \E a \in scope.admins : Transaction(a)
    BY <1>1, <2>2, LockTargetKeepsLocks, ValidateKeepsLocks, LookKeepsLocks,
       LockCurrentKeepsLocks, CommitKeepsLocks, RaiseKeepsLocks DEF CorpusInv, Transaction
  <2> QED
    BY <2>1, <2>2 DEF ReleaseStep
<1> QED
  BY <1>2, <1>3 DEF CorpusInv

---------------------------------------------------------------------------
\* The composition.
LEMMA ScopeIsTyped ==
  ASSUME scope \in Scopes
  PROVE  /\ scope.workers \subseteq Workers /\ scope.jobs \subseteq Jobs
         /\ scope.releases \subseteq Releases /\ scope.admins \subseteq Admins
<1> QED
  BY KnowledgeControlAssumption DEF ScopeType

\* Texts may change as the jobs and the reviewers change them.
LEMMA TextsKeepCorpusInv ==
  ASSUME CorpusInv, TextsKept, UNCHANGED releaseVars
  PROVE  CorpusInv'
<1>1. ReleasesTypeOK' /\ LockInv'
  BY DEF CorpusInv, releaseVars, ReleasesTypeOK, LockInv, Required
<1>2. MembersInv'
  <2>1. /\ Served' = Served /\ members' = members /\ txn' = txn
        /\ ReleasesTypeOK /\ LockInv /\ MembersInv
        /\ \A u \in Unit : approved[u] # {} => approved'[u] # {}
    BY DEF CorpusInv, releaseVars, Served, TextsKept
  <2>2. \A r \in Releases : members[r] \subseteq Unit
    BY <2>1 DEF ReleasesTypeOK
  <2>3. \A a \in Admins : txn[a].pc \in {"look", "lock", "commit"} => txn[a].target \in Releases
    BY <2>1 DEF LockInv
  <2>4. Served \subseteq Releases
    BY DEF Served
  <2> QED
    BY <2>1, <2>2, <2>3, <2>4 DEF MembersInv
<1> QED
  BY <1>1, <1>2 DEF CorpusInv, TextsKept

LEMMA WorkerKeepsControlInv ==
  ASSUME ControlInv, scope \in Scopes, NEW w \in scope.workers, WorkerStep(w) \/ Fails(w)
  PROVE  ControlInv'
<1>1. w \in Workers /\ w \in Crawlers
  BY ScopeIsTyped, KnowledgeControlAssumption
<1>2. CASE Work(w)
  <2>1. TextsKept
    BY <1>1, <1>2, CrawlKeepsTexts, UpsertReadKeepsTexts, UpsertWriteKeepsTexts, OtherJobsKeepTexts
       DEF Work, crawl_website_source, ControlInv, CorpusInv
  <2>2. UNCHANGED releaseVars /\ UNCHANGED jobVars
    BY <1>2 DEF Work
  <2>3. JobInv'
    BY <2>2 DEF ControlInv, JobInv, jobVars, JobsTypeOK, LoadedInv, ClaimInv, Holds
  <2> QED
    BY <2>1, <2>2, <2>3, TextsKeepCorpusInv DEF ControlInv
<1>3. CASE /\ Outcome(w) \/ die(w) \/ execution_unrecorded(w) \/ success_unanswered(w)
           /\ SessionEnds(w)
  <2>1. JobInv'
    BY <1>1, <1>3, ExecutionKeepsJobInv, UnansweredKeepsJobInv DEF Outcome, ControlInv
  <2>2. TextsKept /\ UNCHANGED releaseVars
    BY <1>1, <1>3, SessionEndKeepsTexts DEF SessionEnds, ControlInv, CorpusInv
  <2> QED
    BY <2>1, <2>2, TextsKeepCorpusInv DEF ControlInv
<1>4. CASE /\ \/ recover_read(w) \/ recover_write(w) \/ claim_next_knowledge_job(w)
              \/ execute(w) \/ record_failure(w)
           /\ UNCHANGED <<unitVars, releaseVars>>
  <2>1. JobInv'
    BY <1>1, <1>4, RecoveryKeepsJobInv, ClaimKeepsJobInv, ExecutionKeepsJobInv, FailureKeepsJobInv
       DEF ControlInv
  <2>2. TextsKept /\ UNCHANGED releaseVars
    BY <1>4 DEF ControlInv, CorpusInv, TextsKept, unitVars, UnitsTypeOK, TextInv, Exists, At
  <2> QED
    BY <2>1, <2>2, TextsKeepCorpusInv DEF ControlInv
<1> QED
  BY <1>2, <1>3, <1>4 DEF WorkerStep, Fails

LEMMA NextKeepsControlInv ==
  ASSUME ControlInv, scope \in Scopes, [Next]_vars
  PROVE  ControlInv' /\ scope' \in Scopes
<1>1. scope' = scope
  BY DEF Next, WorkerStep, vars
<1> SUFFICES ControlInv'
  BY <1>1
<1>2. CASE \E w \in scope.workers : WorkerStep(w) \/ Fails(w)
  BY <1>2, WorkerKeepsControlInv
<1>3. CASE \E j \in scope.jobs : JobRequest(j)
  <2>1. PICK j \in Jobs : enqueue_knowledge_job(j) \/ retry_job(j) \/ TimePasses(j)
    BY <1>3, ScopeIsTyped DEF JobRequest
  <2>2. UNCHANGED <<unitVars, releaseVars>>
    BY <1>3 DEF JobRequest
  <2>3. TextsKept /\ UNCHANGED releaseVars
    BY <2>2 DEF ControlInv, CorpusInv, TextsKept, unitVars, UnitsTypeOK, TextInv, Exists, At
  <2> QED
    BY <2>1, <2>3, RequestKeepsJobInv, TextsKeepCorpusInv DEF ControlInv
<1>4. CASE UnitStep \/ ReleaseStep
  <2>1. UNCHANGED jobVars
    BY <1>4 DEF UnitStep, ReleaseStep
  <2>2. JobInv'
    BY <2>1 DEF ControlInv, JobInv, jobVars, JobsTypeOK, LoadedInv, ClaimInv, Holds
  <2>3. CASE UnitStep
    BY <2>2, <2>3, ReviewKeepsTexts, TextsKeepCorpusInv DEF UnitStep, ControlInv, CorpusInv
  <2>4. CASE ReleaseStep
    BY <2>2, <2>4, ReleaseStepKeepsCorpusInv DEF ControlInv
  <2> QED
    BY <1>4, <2>3, <2>4
<1>5. CASE UNCHANGED vars
  <2>1. JobInv'
    BY <1>5 DEF vars, ControlInv, JobInv, jobVars, JobsTypeOK, LoadedInv, ClaimInv, Holds
  <2>2. TextsKept /\ UNCHANGED releaseVars
    BY <1>5 DEF vars, ControlInv, CorpusInv, TextsKept, unitVars, UnitsTypeOK, TextInv, Exists, At
  <2> QED
    BY <2>1, <2>2, TextsKeepCorpusInv DEF ControlInv
<1> QED
  BY <1>1, <1>2, <1>3, <1>4, <1>5 DEF Next

LEMMA InitControlInv == Init => ControlInv /\ scope \in Scopes
<1> SUFFICES ASSUME Init PROVE ControlInv /\ scope \in Scopes
  OBVIOUS
<1>1. JobInv
  BY InitJobInv DEF Init
<1>2. PICK us \in SUBSET Unit, text \in Texts : Seeded(us, text) /\ page = <<page[1], text>>
  <2>1. page \in Sections \X Texts
    BY DEF Init, UnitsInit, Contents
  <2>2. {} \in SUBSET Unit /\ {Base(page[1])} \in SUBSET Unit
    BY <2>1, KnowledgeUnitsAssumption DEF Unit, Base
  <2> QED
    BY <2>1, <2>2 DEF Init, UnitsInit
<1>3. UnitsTypeOK
  <2>1. units \in [Unit -> UnitRows] /\ embedded \subseteq Unit
        /\ approved \in [Unit -> SUBSET (Texts \cup {Spoken})]
    BY <1>2 DEF Seeded, UnitRows, NoUnit
  <2>2. normalized \subseteq Contents /\ page \in Contents
    BY <1>2 DEF Seeded, Unit, Contents, Init, UnitsInit
  <2>3. task \in [Crawlers -> TaskRows]
    BY KnowledgeUnitsAssumption
       DEF Init, UnitsInit, Idle, NoUnit, TaskRows, UnitRows, Contents
  <2>4. /\ conflict \in [Pairs -> {"none", "open", "decided"}] /\ raced \subseteq Unit
        /\ edits \in 0..MaxEdits /\ reviews \in 0..MaxReviews
    BY KnowledgeUnitsAssumption DEF Init, UnitsInit
  <2> QED
    BY <2>1, <2>2, <2>3, <2>4 DEF UnitsTypeOK
<1>4. TextInv
  BY <1>2 DEF TextInv, Seeded, NoUnit, Exists, At, Idle, Init, UnitsInit
<1>5. ReleasesTypeOK
  BY DEF Init, ReleasesInit, ReleasesTypeOK, Closed, Transactions
<1>6. LockInv /\ MembersInv
  BY DEF Init, ReleasesInit, LockInv, MembersInv, Served, Closed
<1> QED
  BY <1>1, <1>3, <1>4, <1>5, <1>6 DEF ControlInv, CorpusInv, Init

---------------------------------------------------------------------------
\* The invariant of the control plane holds at every step of every behaviour.
THEOREM ControlAlwaysSound == Spec => [](ControlInv /\ scope \in Scopes)
<1>1. (ControlInv /\ scope \in Scopes) /\ [Next]_vars => (ControlInv /\ scope \in Scopes)'
  BY NextKeepsControlInv
<1> QED
  BY <1>1, InitControlInv, PTL DEF Spec

\* Every variable has its type, whatever the workers and administrators do.
THEOREM ControlTypeCorrect == Spec => []TypeOK
<1>1. ControlInv /\ scope \in Scopes => TypeOK
  BY DEF ControlInv, JobInv, CorpusInv, TypeOK
<1> QED
  BY <1>1, ControlAlwaysSound, PTL

\* The text of a unit that a published or once published release contains was
\* approved, unless a crawl that had read the draft wrote it after the review.
THEOREM ServedIsApproved == Spec => []ServedTextApproved
<1>1. ControlInv => ServedTextApproved
  BY DEF ControlInv, CorpusInv, MembersInv, TextInv, ServedTextApproved, ReleasesTypeOK, Served
<1> QED
  BY <1>1, ControlAlwaysSound, PTL

\* A job that no recovery took over, and whose success was answered, keeps its
\* outcome and stays within its executions; only an administrator's retry runs a
\* failed one again.
THEOREM OutcomesAreFinal == Spec => OutcomeIsFinal
<1> DEFINE Final(j) ==
      /\ jobs[j].status = "succeeded" => jobs'[j].status = "succeeded"
      /\ (jobs[j].status = "failed" /\ jobs'[j].status # "failed") => retries' = retries + 1
<1>1. ASSUME ControlInv, scope \in Scopes, [Next]_vars, NEW j \in Jobs \ taken'
      PROVE  Final(j)
  <2>1. JobInv /\ JobsTypeOK /\ ClaimInv /\ LoadedInv
    BY <1>1 DEF ControlInv, JobInv
  <2>2. CASE UNCHANGED jobs
    BY <2>2
  <2>3. CASE \E i \in Jobs : enqueue_knowledge_job(i) \/ retry_job(i) \/ TimePasses(i)
    BY <2>1, <2>3 DEF enqueue_knowledge_job, retry_job, TimePasses, JobsTypeOK, JobRows
  <2>4. CASE \E w \in Workers : claim_next_knowledge_job(w)
    BY <2>1, <2>4 DEF claim_next_knowledge_job, JobsTypeOK, JobRows
  <2>5. CASE \E w \in Workers : recover_write(w)
    BY <1>1, <2>1, <2>5 DEF recover_write, JobsTypeOK
  <2>6. CASE \E w \in Workers : succeed(w)
    <3>1. PICK w \in Workers : succeed(w)
      BY <2>6
    <3>2. worker[w].job = j /\ j \notin taken => jobs[j].status = "running"
      BY <2>1, <3>1 DEF succeed, ClaimInv, Holds
    <3> QED
      BY <1>1, <2>1, <3>1, <3>2 DEF succeed, JobsTypeOK, JobRows
  <2>7. CASE \E w \in Workers : record_failure(w)
    <3>1. PICK w \in Workers : record_failure(w)
      BY <2>7
    <3>2. taken' = taken
      BY <3>1 DEF record_failure
    <3>3. worker[w].job = j => jobs[j].status = "running"
      BY <1>1, <2>1, <3>1, <3>2, FailureRecorded
    <3>4. worker[w].job # j => jobs'[j] = jobs[j]
      BY <1>1, <2>1, <3>1, FailureRecorded
    <3> QED
      BY <3>3, <3>4
  <2>8. CASE \E w \in Workers : success_unanswered(w)
    BY <1>1, <2>1, <2>8 DEF success_unanswered, JobsTypeOK
  <2>9. \/ UNCHANGED jobs
        \/ \E i \in Jobs : enqueue_knowledge_job(i) \/ retry_job(i) \/ TimePasses(i)
        \/ \E w \in Workers : claim_next_knowledge_job(w) \/ recover_write(w)
                               \/ succeed(w) \/ record_failure(w) \/ success_unanswered(w)
    <3>1. scope.workers \subseteq Workers /\ scope.jobs \subseteq Jobs
      BY <1>1, ScopeIsTyped
    <3>2. CASE UNCHANGED vars
      BY <3>2 DEF vars, jobVars
    <3>3. CASE \E w \in scope.workers : WorkerStep(w) \/ Fails(w)
      BY <3>1, <3>3 DEF WorkerStep, Work, Outcome, Fails, raise, die,
         execution_unrecorded, execute, recover_read, jobVars
    <3>4. CASE \E i \in scope.jobs : JobRequest(i)
      BY <3>1, <3>4 DEF JobRequest
    <3>5. CASE UnitStep \/ ReleaseStep
      BY <3>5 DEF UnitStep, ReleaseStep, jobVars
    <3> QED
      BY <1>1, <3>2, <3>3, <3>4, <3>5 DEF Next
  <2> QED
    BY <2>2, <2>3, <2>4, <2>5, <2>6, <2>7, <2>8, <2>9
<1>2. ControlInv /\ scope \in Scopes /\ ControlInv' /\ [Next]_vars =>
        [\A j \in Jobs \ taken' :
           /\ jobs[j].status = "succeeded" => jobs'[j].status = "succeeded"
           /\ (jobs[j].status = "failed" /\ jobs'[j].status # "failed")
                => retries' = retries + 1
           /\ jobs'[j].attempts =< MaxAttempts]_jobVars
  BY <1>1 DEF ControlInv, JobInv, ClaimInv
<1> QED
  BY <1>2, ControlAlwaysSound, PTL DEF Spec, OutcomeIsFinal

---------------------------------------------------------------------------
\* The live release is the published one.
LEMMA LiveIsPublished ==
  ASSUME LockInv
  PROVE  /\ \A r \in Releases : release[r] = "published" => Live = r
         /\ (\A r \in Releases : release[r] # "published") => Live = NoRelease
<1> QED
  BY DEF LockInv, Live

LEMMA LiveIsPublishedNext ==
  ASSUME LockInv'
  PROVE  /\ \A r \in Releases : release'[r] = "published" => Live' = r
         /\ (\A r \in Releases : release'[r] # "published") => Live' = NoRelease
<1> QED
  BY DEF LockInv, Live

\* No step but a commit changes what is live or was served.
LEMMA OthersKeepServed ==
  ASSUME LockInv, LockInv', NEW r \in Releases, create_release(r) \/ UNCHANGED release,
         ReleasesTypeOK
  PROVE  UNCHANGED <<Live, Served>>
<1>1. \A p \in Releases :
        /\ release'[p] = "published" <=> release[p] = "published"
        /\ release'[p] = "retired" <=> release[p] = "retired"
  BY DEF create_release, ReleasesTypeOK
<1>2. Served' = Served
  BY <1>1 DEF Served
<1>3. Live' = Live
  BY <1>1, LiveIsPublished, LiveIsPublishedNext
<1> QED
  BY <1>2, <1>3

\* Publication and rollback implement the corpus: one release is live at most,
\* and what becomes live again was live before.
THEOREM OneReleaseIsLive == Spec => OneLiveRelease
<1>1. Init => Corpus!Init
  BY DEF Init, ReleasesInit, Corpus!Init, Live, Served
<1>2. ASSUME ControlInv, scope \in Scopes, ControlInv', [Next]_vars
      PROVE  [Corpus!Next]_(Corpus!corpusVars)
  <2>1. LockInv /\ LockInv' /\ ReleasesTypeOK /\ MembersInv
    BY <1>2 DEF ControlInv, CorpusInv
  <2>2. ASSUME NEW a \in Admins, commit_swap(a), ~Raise(a)
        PROVE  Corpus!Next
    <3> DEFINE r == txn[a].target
    <3>1. /\ r \in Releases /\ release[r] \in {"draft", "retired"}
          /\ release'[r] = "published" /\ Served' = Served \cup {r}
      BY <2>1, <2>2, CommitKeepsLocks
    <3>2. Live' = r
      BY <2>1, <3>1, LiveIsPublishedNext
    <3>3. CASE release[r] = "draft"
      <4>1. r \in Releases \ Served
        BY <3>1, <3>3 DEF Served
      <4> QED
        BY <3>1, <3>2, <4>1 DEF Corpus!Next, Corpus!Publish
    <3>4. CASE release[r] = "retired"
      <4>1. r \in Served /\ Served' = Served
        BY <3>1, <3>4 DEF Served
      <4>2. r # Live
        BY <2>1, <3>1, <3>4, LiveIsPublished, KnowledgeReleasesAssumption DEF ReleasesTypeOK
      <4> QED
        BY <3>1, <3>2, <4>1, <4>2 DEF Corpus!Next, Corpus!Rollback
    <3> QED
      BY <3>1, <3>3, <3>4
  <2>3. CASE \E r \in Releases : create_release(r)
    BY <2>1, <2>3, OthersKeepServed DEF Corpus!corpusVars
  <2>4. CASE UNCHANGED release
    BY <2>1, <2>4, LiveIsPublished, LiveIsPublishedNext DEF Served, Corpus!corpusVars
  <2>5. \/ UNCHANGED release
        \/ \E r \in Releases : create_release(r)
        \/ \E a \in Admins : commit_swap(a) /\ ~Raise(a)
    <3>1. scope.releases \subseteq Releases /\ scope.admins \subseteq Admins
      BY <1>2, ScopeIsTyped
    <3>2. CASE ReleaseStep
      BY <3>1, <3>2 DEF ReleaseStep, Transaction, publish_release, rollback_release, lock_target,
         validate_release, look_for_current, lock_current, Raise
    <3>3. CASE ~ReleaseStep
      BY <1>2, <3>3 DEF Next, vars, releaseVars, WorkerStep, Work, Outcome, SessionEnds, Fails,
         JobRequest, UnitStep
    <3> QED
      BY <3>2, <3>3
  <2> QED
    BY <2>2, <2>3, <2>4, <2>5
<1>3. ControlInv /\ scope \in Scopes /\ ControlInv' /\ [Next]_vars
        => [Corpus!Next]_(Corpus!corpusVars)
  BY <1>2
<1> QED
  BY <1>1, <1>3, ControlAlwaysSound, PTL DEF Spec, OneLiveRelease, Corpus!Spec
====
