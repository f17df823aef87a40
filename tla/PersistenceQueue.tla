---- MODULE PersistenceQueue ----
(***************************************************************************)
(* The persistence lane of BackgroundTaskQueue (core/task_queue.py): the   *)
(* fsynced journal, the bounded queue with its overflow tasks, the workers *)
(* with their per-call lock and retry loop, the replay of journals after a *)
(* restart and the drain a call's teardown waits for (main.py).  The call  *)
(* writers it runs are those of services/calls.py, against a database that *)
(* may be down or may fail after it has committed.                         *)
(*                                                                         *)
(* A step is what the event loop runs between two awaits, so an enqueue, a *)
(* replay scan and the clean-up after an attempt are one step each.        *)
(***************************************************************************)
EXTENDS Integers, Sequences, FiniteSets, Functions

CONSTANTS
  Writes,      \* the tasks enqueued in a run
  Durable,     \* those of services.calls, which are journaled
  Overwrites,  \* the durable ones that overwrite (save_call_summary)
  Keys, KeyOf, \* the calls, and the call each task is keyed by
  Workers,
  Capacity,    \* BACKGROUND_TASK_QUEUE_MAXSIZE
  MaxFaults,   \* bound: outages, commits answered by an error, full disks
  MaxCrashes   \* bound: process deaths and shutdowns

ASSUME PersistenceAssumption ==
  /\ Overwrites \subseteq Durable /\ Durable \subseteq Writes
  /\ IsFiniteSet(Writes)
  /\ KeyOf \in [Writes -> Keys]
  /\ Capacity \in Nat \ {0}
  /\ MaxFaults \in Nat /\ MaxCrashes \in Nat
  /\ "none" \notin Writes

VARIABLES
  phase,     \* of the process
  journal,   \* the files of the spool directory
  active,    \* _journal_active
  queue,     \* _queue
  overflow,  \* the items of _overflow_tasks
  at, job,   \* where each worker is, and its item
  line,      \* _key_locks: the owner of each lock, then its waiters
  pending,   \* _persistence_pending
  drained,   \* _persistence_drained: whether the event is set
  db,        \* whether the database answers
  status,    \* Call.status
  ledger,    \* what was committed for each call, in order
  session,   \* how far the teardown of each call is
  accepted,  \* history: tasks enqueue answered True for, in order
  refused,   \* history: tasks enqueue answered False for
  declined,  \* history: tasks whose writer found the call terminal
  before,    \* history: the tasks of a call accepted before its drain began
  faults, crashes  \* counters for the bounds

memory == <<active, queue, overflow, at, job, line, pending, drained>>
history == <<accepted, refused, declined, before>>
bounds == <<faults, crashes>>
vars == <<phase, journal, memory, db, status, ledger, session, history, bounds>>

Phases == {"down", "running", "stopping", "joined"}
NoJob == "none"
Locations == {"get", "turn", "answered", "retry"}
Statuses == {"open", "final", "abandoned"}
Sessions == {"live", "waiting", "drained", "over"}

OfKey(W, k) == {w \in W : KeyOf[w] = k}
\* The tasks whose records the ledger holds.
rows == UNION {Range(ledger[k]) : k \in Keys}
Accepted == Range(accepted)
Busy == {x \in Workers : at[x] # "get"}
\* The tasks the process owes an attempt.
Held == Range(queue) \cup overflow \cup {job[x] : x \in Busy}

EmptyMemory ==
  /\ active' = {} /\ queue' = <<>> /\ overflow' = {}
  /\ at' = [x \in Workers |-> "get"] /\ job' = [x \in Workers |-> NoJob]
  /\ line' = [k \in Keys |-> <<>>]
  /\ pending' = [k \in Keys |-> 0] /\ drained' = [k \in Keys |-> TRUE]

Init ==
  /\ phase = "running" /\ journal = {}
  /\ active = {} /\ queue = <<>> /\ overflow = {}
  /\ at = [x \in Workers |-> "get"] /\ job = [x \in Workers |-> NoJob]
  /\ line = [k \in Keys |-> <<>>]
  /\ pending = [k \in Keys |-> 0] /\ drained = [k \in Keys |-> TRUE]
  /\ db = TRUE /\ status = [k \in Keys |-> "open"]
  /\ ledger = [k \in Keys |-> <<>>] /\ session = [k \in Keys |-> "live"]
  /\ accepted = <<>> /\ refused = {} /\ declined = {}
  /\ before = [k \in Keys |-> {}]
  /\ faults = 0 /\ crashes = 0

Running == phase # "down"

---------------------------------------------------------------------------
\* enqueue, with _write_journal and _mark_persistence_queued.

\* A journaled task that finds the queue full waits in a task of its own.
Take(w) ==
  /\ accepted' = Append(accepted, w)
  /\ pending' = [pending EXCEPT ![KeyOf[w]] = @ + 1]
  /\ drained' = [drained EXCEPT ![KeyOf[w]] = FALSE]
  /\ \/ /\ Len(queue) < Capacity
        /\ queue' = Append(queue, w)
        /\ UNCHANGED overflow
     \/ /\ Len(queue) >= Capacity
        /\ overflow' = overflow \cup {w}
        /\ UNCHANGED queue
  /\ UNCHANGED <<refused, faults>>

Refuse(w) ==
  /\ refused' = refused \cup {w}
  /\ UNCHANGED <<journal, active, queue, overflow, pending, drained, accepted>>

enqueue(w) ==
  /\ Running
  /\ w \notin Accepted \cup refused
  /\ \/ /\ w \in Durable
        /\ journal' = journal \cup {w} /\ active' = active \cup {w}
        /\ Take(w)
     \/ /\ w \in Durable /\ faults < MaxFaults   \* the journal cannot be written
        /\ faults' = faults + 1
        /\ Refuse(w)
     \/ /\ w \notin Durable /\ Len(queue) < Capacity
        /\ UNCHANGED <<journal, active>>
        /\ Take(w)
     \/ /\ w \notin Durable /\ Len(queue) >= Capacity
        /\ UNCHANGED faults
        /\ Refuse(w)
  /\ UNCHANGED <<phase, at, job, line, db, status, ledger, session, declined,
                 before, crashes>>

\* _put_overflow: whichever task the loop wakes first, if the slot is still free.
PutOverflow ==
  /\ Len(queue) < Capacity
  /\ \E w \in overflow :
       /\ overflow' = overflow \ {w}
       /\ queue' = Append(queue, w)
  /\ UNCHANGED <<phase, journal, active, at, job, line, pending, drained, db,
                 status, ledger, session, history, bounds>>

\* Fault: the scan looks at every file, claimed or not.
ReplayEverything ==
  /\ Running
  /\ \E w \in journal :
       /\ Len(queue) < Capacity
       /\ queue' = Append(queue, w)
       /\ active' = active \cup {w}
       /\ pending' = [pending EXCEPT ![KeyOf[w]] = @ + 1]
       /\ drained' = [drained EXCEPT ![KeyOf[w]] = FALSE]
  /\ UNCHANGED <<phase, journal, overflow, at, job, line, db, status, ledger,
                 session, history, bounds>>

\* One scan of _replay_journals: unclaimed files, in the order of their random
\* names, until the queue is full.
ReplayJournals ==
  LET unclaimed == journal \ active
      free == Capacity - Len(queue)
  IN /\ Running
     /\ unclaimed # {} /\ free > 0
     /\ \E n \in 1..free : \E scan \in Injection(1..n, unclaimed) :
          /\ n = free \/ Range(scan) = unclaimed
          /\ queue' = queue \o scan
          /\ active' = active \cup Range(scan)
          /\ pending' = [k \in Keys |->
                           pending[k] + Cardinality(OfKey(Range(scan), k))]
          /\ drained' = [k \in Keys |->
                           drained[k] /\ OfKey(Range(scan), k) = {}]
     /\ UNCHANGED <<phase, journal, overflow, at, job, line, db, status, ledger,
                    session, history, bounds>>

---------------------------------------------------------------------------
\* _worker.  The lock of a call is taken in the order in which it was asked for.

\* Fault: the file is unlinked when the task is taken.
GetUnlinks(x) ==
  /\ Running
  /\ at[x] = "get" /\ queue # <<>>
  /\ job' = [job EXCEPT ![x] = Head(queue)]
  /\ queue' = Tail(queue)
  /\ at' = [at EXCEPT ![x] = "turn"]
  /\ line' = [line EXCEPT ![KeyOf[Head(queue)]] = Append(@, x)]
  /\ journal' = journal \ {Head(queue)}
  /\ UNCHANGED <<phase, active, overflow, pending, drained, db, status,
                 ledger, session, history, bounds>>

\* _queue.get and the first attempt up to its first await.
Get(x) ==
  /\ Running
  /\ at[x] = "get" /\ queue # <<>>
  /\ job' = [job EXCEPT ![x] = Head(queue)]
  /\ queue' = Tail(queue)
  /\ at' = [at EXCEPT ![x] = "turn"]
  /\ line' = [line EXCEPT ![KeyOf[Head(queue)]] = Append(@, x)]
  /\ UNCHANGED <<phase, journal, active, overflow, pending, drained, db, status,
                 ledger, session, history, bounds>>

OwnsLock(x) == at[x] = "turn" /\ Head(line[KeyOf[job[x]]]) = x

\* Fault: no look-up of the persistence id.
CommittedAgain(w) == [ledger EXCEPT ![KeyOf[w]] = Append(@, w)]

\* What the writer of w commits: a record at most once, an overwrite every time.
Committed(w) ==
  LET k == KeyOf[w]
  IN IF w \in Overwrites \/ w \notin Range(ledger[k])
     THEN [ledger EXCEPT ![k] = Append(@, w)]
     ELSE ledger

Answer(x) == at' = [at EXCEPT ![x] = "answered"] /\ UNCHANGED line

\* The exception releases the lock and the worker sleeps before the next attempt.
BackOff(x) ==
  /\ at' = [at EXCEPT ![x] = "retry"]
  /\ line' = [line EXCEPT ![KeyOf[job[x]]] = Tail(@)]

untouched == UNCHANGED <<phase, journal, active, queue, overflow, job, db, status,
                         session, accepted, refused, before, crashes>>

\* The transaction commits; the row lock of the call makes its status check and
\* its insert one step.
Commit(x) ==
  /\ OwnsLock(x) /\ db
  /\ job[x] \in Durable /\ status[KeyOf[job[x]]] = "open"
  /\ ledger' = Committed(job[x])
  /\ \/ Answer(x) /\ UNCHANGED faults
     \/ BackOff(x) /\ faults < MaxFaults /\ faults' = faults + 1
  /\ UNCHANGED <<pending, drained, declined>>
  /\ untouched

\* A terminal call refuses the write, which the worker takes for done.
Decline(x) ==
  /\ OwnsLock(x) /\ db
  /\ job[x] \in Durable /\ status[KeyOf[job[x]]] # "open"
  /\ declined' = declined \cup {job[x]}
  /\ Answer(x)
  /\ UNCHANGED <<pending, drained, ledger, faults>>
  /\ untouched

\* A task that is not journaled ends, well or not, without the database.
RunPlain(x) ==
  /\ OwnsLock(x)
  /\ job[x] \notin Durable
  /\ Answer(x)
  /\ UNCHANGED <<pending, drained, ledger, declined, faults>>
  /\ untouched

Fail(x) ==
  /\ OwnsLock(x) /\ ~db
  /\ job[x] \in Durable
  /\ BackOff(x)
  /\ UNCHANGED <<pending, drained, ledger, declined, faults>>
  /\ untouched

\* Fault: a failed task is left to its journal file, and stays claimed.
RetryGivesUp(x) ==
  /\ at[x] = "retry"
  /\ at' = [at EXCEPT ![x] = "get"]
  /\ job' = [job EXCEPT ![x] = NoJob]
  /\ pending' = [pending EXCEPT ![KeyOf[job[x]]] = @ - 1]
  /\ UNCHANGED <<phase, journal, active, queue, overflow, line, drained, db, status,
                 ledger, session, history, bounds>>

Retry(x) ==
  /\ at[x] = "retry"
  /\ at' = [at EXCEPT ![x] = "turn"]
  /\ line' = [line EXCEPT ![KeyOf[job[x]]] = Append(@, x)]
  /\ UNCHANGED <<pending, drained, ledger, declined, faults>>
  /\ untouched

\* Fault: the event is not set.
FinishSilently(x) ==
  LET w == job[x]
      k == KeyOf[w]
  IN /\ at[x] = "answered"
     /\ at' = [at EXCEPT ![x] = "get"]
     /\ job' = [job EXCEPT ![x] = NoJob]
     /\ line' = [line EXCEPT ![k] = Tail(@)]
     /\ journal' = journal \ {w}
     /\ active' = active \ {w}
     /\ pending' = [pending EXCEPT ![k] = @ - 1]
     /\ UNCHANGED <<phase, queue, overflow, drained, db, status, ledger, session,
                    history, bounds>>

\* The finally block: unlink, discard, task_done and _mark_persistence_finished,
\* whose event wakes the teardown that waits for it.
Finish(x) ==
  LET w == job[x]
      k == KeyOf[w]
  IN /\ at[x] = "answered"
     /\ at' = [at EXCEPT ![x] = "get"]
     /\ job' = [job EXCEPT ![x] = NoJob]
     /\ line' = [line EXCEPT ![k] = Tail(@)]
     /\ journal' = journal \ {w}
     /\ active' = active \ {w}
     /\ pending' = [pending EXCEPT ![k] = @ - 1]
     /\ drained' = [drained EXCEPT ![k] = pending[k] = 1]
     /\ session' = [session EXCEPT ![k] =
                      IF @ = "waiting" /\ pending[k] = 1 THEN "drained" ELSE @]
     /\ UNCHANGED <<phase, queue, overflow, db, status, ledger, history, bounds>>

Worker(x) ==
  \/ Get(x) \/ Commit(x) \/ Decline(x) \/ RunPlain(x) \/ Fail(x) \/ Retry(x)
  \/ Finish(x)

---------------------------------------------------------------------------
\* The end of a call (_run_bot's finally block), and the watchdog.

\* Fault: a drain that timed out counts as drained.
waitGivesUp(k) ==
  /\ Running
  /\ session[k] = "live"
  /\ before' = [before EXCEPT ![k] = OfKey(Accepted, k)]
  /\ session' = [session EXCEPT ![k] = "drained"]
  /\ UNCHANGED <<phase, journal, memory, db, status, ledger, accepted, refused,
                 declined, bounds>>

\* A drain that times out is repeated, so only its success matters.
wait_for_key(k) ==
  /\ Running
  /\ session[k] = "live"
  /\ before' = [before EXCEPT ![k] = OfKey(Accepted, k)]
  /\ session' = [session EXCEPT ![k] = IF pending[k] = 0 THEN "drained" ELSE "waiting"]
  /\ UNCHANGED <<phase, journal, memory, db, status, ledger, accepted, refused,
                 declined, bounds>>

\* finalize_call is not retried when the database fails.
finalize_call(k) ==
  /\ Running
  /\ session[k] = "drained"
  /\ session' = [session EXCEPT ![k] = "over"]
  /\ status' = IF db /\ status[k] = "open" THEN [status EXCEPT ![k] = "final"]
               ELSE status
  /\ UNCHANGED <<phase, journal, memory, db, ledger, history, bounds>>

\* abandon_stale_calls, in this process or in the maintenance worker: a call that
\* has no session any more has no heartbeat.
abandon(k) ==
  /\ db /\ status[k] = "open"
  /\ session[k] = "over"
  /\ status' = [status EXCEPT ![k] = "abandoned"]
  /\ UNCHANGED <<phase, journal, memory, db, ledger, session, history, bounds>>

---------------------------------------------------------------------------
\* The process and the database.

\* A kill at any point loses what is in memory and every session.
Crash ==
  /\ Running
  /\ crashes < MaxCrashes
  /\ crashes' = crashes + 1
  /\ phase' = "down"
  /\ EmptyMemory
  /\ session' = [k \in Keys |-> "over"]
  /\ UNCHANGED <<journal, db, status, ledger, history, faults>>

start ==
  /\ phase = "down"
  /\ phase' = "running"
  /\ UNCHANGED <<journal, memory, db, status, ledger, session, history, bounds>>

\* stop() gathers the overflow tasks and joins the queue while the workers go on;
\* then it cancels them, whatever was enqueued in between.
stop ==
  /\ phase = "running"
  /\ crashes < MaxCrashes
  /\ crashes' = crashes + 1
  /\ phase' = "stopping"
  /\ UNCHANGED <<journal, memory, db, status, ledger, session, history, faults>>

Join ==
  /\ phase = "stopping"
  /\ queue = <<>> /\ overflow = {} /\ Busy = {}
  /\ phase' = "joined"
  /\ UNCHANGED <<journal, memory, db, status, ledger, session, history, bounds>>

Stopped ==
  /\ phase = "joined"
  /\ phase' = "down"
  /\ EmptyMemory
  /\ session' = [k \in Keys |-> "over"]
  /\ UNCHANGED <<journal, db, status, ledger, history, bounds>>

Outage ==
  /\ db /\ faults < MaxFaults
  /\ db' = FALSE /\ faults' = faults + 1
  /\ UNCHANGED <<phase, journal, memory, status, ledger, session, history, crashes>>

Recovery ==
  /\ ~db
  /\ db' = TRUE
  /\ UNCHANGED <<phase, journal, memory, status, ledger, session, history, bounds>>

Next ==
  \/ \E w \in Writes : enqueue(w)
  \/ PutOverflow \/ ReplayJournals
  \/ \E x \in Workers : Worker(x)
  \/ \E k \in Keys : wait_for_key(k) \/ finalize_call(k) \/ abandon(k)
  \/ Crash \/ start \/ stop \/ Join \/ Stopped
  \/ Outage \/ Recovery

\* The loop runs every ready task; the container is restarted when it exits.
Fairness ==
  /\ WF_vars(PutOverflow) /\ WF_vars(ReplayJournals)
  /\ \A x \in Workers : WF_vars(Worker(x))
  /\ WF_vars(Join) /\ WF_vars(Stopped) /\ WF_vars(start)

Spec == Init /\ [][Next]_vars /\ Fairness

---------------------------------------------------------------------------
TypeOK ==
  /\ phase \in Phases /\ db \in BOOLEAN
  /\ {journal, active, overflow, refused, declined} \subseteq SUBSET Writes
  /\ queue \in Seq(Writes) /\ accepted \in Seq(Writes)
  /\ at \in [Workers -> Locations]
  /\ job \in [Workers -> Writes \cup {NoJob}]
  /\ line \in [Keys -> Seq(Workers)]
  /\ pending \in [Keys -> Nat] /\ drained \in [Keys -> BOOLEAN]
  /\ status \in [Keys -> Statuses] /\ session \in [Keys -> Sessions]
  /\ ledger \in [Keys -> Seq(Writes)]
  /\ before \in [Keys -> SUBSET Writes]
  /\ faults \in 0..MaxFaults /\ crashes \in 0..MaxCrashes

\* Every durable task that was accepted and is not yet decided has its journal
\* file, whatever the queue, the workers, a restart or a shutdown did meanwhile.
NothingLost ==
  \A w \in Accepted \cap Durable : w \in rows \cup declined \cup journal

\* The replay never runs a task that the process already has: each held task is
\* in one place, and _journal_active names exactly the held durable ones.
OneOwner ==
  /\ active = Held \cap Durable
  /\ IsInjective(queue)
  /\ overflow \cap Range(queue) = {}
  /\ \A x \in Busy : job[x] \notin Range(queue) \cup overflow
  /\ \A x, y \in Busy : job[x] = job[y] => x = y

\* The count a drain waits on is the number of tasks of the call that are held.
PendingCountsHeld ==
  \A k \in Keys : /\ pending[k] = Cardinality(OfKey(Held, k))
                  /\ drained[k] = (pending[k] = 0)

\* Teardown finalizes a call only after everything that was accepted before its
\* drain began has been decided, so none of it is refused as too late.
DrainProtectsEarlier ==
  \A k \in Keys : status[k] = "final" => before[k] \cap declined \subseteq rows

\* A database that stays up and a process that stays up decide every durable task.
EventuallyDecided ==
  <>[](db /\ phase = "running")
    => \A w \in Durable : [](w \in Accepted => <>(w \in rows \cup declined))

\* Once the database stays up, no drain waits for ever and shutdown ends.
DrainsEnd ==
  <>[]db => /\ \A k \in Keys : [](session[k] = "waiting" => <>(session[k] # "waiting"))
            /\ [](phase = "stopping" => <>(phase # "stopping"))

\* Tasks that spill are still written in the order they were accepted
\* (test_durable_call_tasks_spill_instead_of_dropping_on_queue_full).
SpillKeepsOrder ==
  \A k \in Keys : \A i, j \in DOMAIN ledger[k] :
    i < j => \E m, n \in DOMAIN accepted :
               m < n /\ accepted[m] = ledger[k][i] /\ accepted[n] = ledger[k][j]

Ledger == INSTANCE DurableLedger
  WITH Writes <- Durable, accepted <- Accepted \cap Durable,
       dropped <- declined \ rows, ended <- {k \in Keys : status[k] # "open"}

\* The queue keeps the abstract promise.
QueueIsDurableLedger == Ledger!Spec
====
