---- MODULE PersistenceQueueProofs ----
(***************************************************************************)
(* For any calls, tasks, workers and failures: an accepted durable task    *)
(* keeps its journal file until it is decided, nothing runs it twice at a  *)
(* time, a drain covers what came before it, and the queue implements      *)
(* DurableLedger.                                                          *)
(***************************************************************************)
EXTENDS PersistenceQueue, SequenceTheorems, FiniteSetTheorems, TLAPS

---------------------------------------------------------------------------
\* Facts about sequences as queues.

\* A sequence of length n is a function on 1..n.
LEMMA SeqIsFunction ==
  ASSUME NEW S, NEW s \in Seq(S)
  PROVE  /\ s \in [1..Len(s) -> S] /\ Len(s) \in Nat /\ DOMAIN s = 1..Len(s)
         /\ \A i \in 1..Len(s) : s[i] \in S
OBVIOUS

\* Appending adds one element.
LEMMA RangeAppend ==
  ASSUME NEW S, NEW s \in Seq(S), NEW e \in S
  PROVE  /\ Append(s, e) \in Seq(S)
         /\ Range(Append(s, e)) = Range(s) \cup {e}
         /\ IsInjective(s) /\ e \notin Range(s) => IsInjective(Append(s, e))
<1> DEFINE t == Append(s, e)
<1>1. /\ t \in Seq(S) /\ DOMAIN t = 1..(Len(s) + 1) /\ Len(s) \in Nat
      /\ DOMAIN s = 1..Len(s)
      /\ \A i \in 1..Len(s) : t[i] = s[i]
      /\ t[Len(s) + 1] = e
  BY AppendProperties
<1> HIDE DEF t
<1>2. Range(t) = Range(s) \cup {e}
  BY <1>1 DEF Range
<1>3. ASSUME IsInjective(s), e \notin Range(s) PROVE IsInjective(t)
  BY <1>1, <1>3 DEF IsInjective, Range
<1> QED
  BY <1>1, <1>2, <1>3 DEF t

\* Taking the head removes one element, and from a sequence without repetition
\* all of it.
LEMMA RangeTail ==
  ASSUME NEW S, NEW s \in Seq(S), s # <<>>
  PROVE  /\ Head(s) \in S /\ Tail(s) \in Seq(S)
         /\ Range(s) = {Head(s)} \cup Range(Tail(s))
         /\ IsInjective(s) => IsInjective(Tail(s)) /\ Head(s) \notin Range(Tail(s))
<1> DEFINE t == Tail(s)
<1>1. /\ Head(s) = s[1] /\ s[1] \in S /\ t \in Seq(S) /\ Len(s) \in Nat \ {0}
      /\ DOMAIN s = 1..Len(s) /\ DOMAIN t = 1..(Len(s) - 1)
      /\ \A i \in 1..(Len(s) - 1) : t[i] = s[i + 1]
  <2>1. Len(s) \in Nat \ {0} /\ DOMAIN s = 1..Len(s) /\ s[1] \in S
    BY EmptySeq
  <2>2. t \in Seq(S) /\ Len(t) = Len(s) - 1 /\ \A i \in 1..Len(t) : t[i] = s[i + 1]
    BY HeadTailProperties
  <2>3. DOMAIN t = 1..Len(t)
    BY <2>2
  <2> QED
    BY <2>1, <2>2, <2>3
<1> HIDE DEF t
<1>2. Range(s) = {Head(s)} \cup Range(t)
  <2>1. \A i \in 1..Len(s) : i = 1 \/ (i - 1 \in 1..(Len(s) - 1) /\ t[i - 1] = s[i])
    BY <1>1
  <2>2. \A i \in 1..(Len(s) - 1) : i + 1 \in 1..Len(s)
    BY <1>1
  <2>3. Range(s) \subseteq {Head(s)} \cup Range(t)
    <3> SUFFICES ASSUME NEW i \in 1..Len(s) PROVE s[i] \in {Head(s)} \cup Range(t)
      BY <1>1 DEF Range
    <3> QED
      BY <1>1, <2>1 DEF Range
  <2>4. {Head(s)} \cup Range(t) \subseteq Range(s)
    <3>1. Head(s) \in Range(s)
      BY <1>1 DEF Range
    <3>2. \A i \in 1..(Len(s) - 1) : t[i] \in Range(s)
      BY <1>1, <2>2 DEF Range
    <3> QED
      BY <1>1, <3>1, <3>2 DEF Range
  <2> QED
    BY <2>3, <2>4
<1>3. ASSUME IsInjective(s) PROVE IsInjective(t) /\ Head(s) \notin Range(t)
  <2>1. \A i \in DOMAIN t : i + 1 \in DOMAIN s /\ t[i] = s[i + 1] /\ i + 1 # 1
    BY <1>1
  <2>2. \A i, j \in DOMAIN t : i + 1 = j + 1 => i = j
    BY <1>1
  <2>3. IsInjective(t)
    <3> SUFFICES ASSUME NEW i \in DOMAIN t, NEW j \in DOMAIN t, t[i] = t[j]
                 PROVE  i = j
      BY DEF IsInjective
    <3>1. s[i + 1] = s[j + 1] /\ i + 1 \in DOMAIN s /\ j + 1 \in DOMAIN s
      BY <2>1
    <3>2. i + 1 = j + 1
      BY <1>3, <3>1 DEF IsInjective
    <3> QED
      BY <2>2, <3>2
  <2>4. \A i \in DOMAIN t : t[i] # s[1]
    BY <1>1, <1>3, <2>1 DEF IsInjective
  <2> QED
    BY <1>1, <2>3, <2>4 DEF Range
<1> QED
  BY <1>1, <1>2, <1>3 DEF t

\* A replay scan adds all its elements behind the queue.
LEMMA RangeConcat ==
  ASSUME NEW S, NEW s \in Seq(S), NEW t \in Seq(S)
  PROVE  /\ s \o t \in Seq(S)
         /\ Range(s \o t) = Range(s) \cup Range(t)
         /\ IsInjective(s) /\ IsInjective(t) /\ Range(s) \cap Range(t) = {}
              => IsInjective(s \o t)
<1> DEFINE u == s \o t
<1>1. /\ u \in Seq(S) /\ Len(s) \in Nat /\ Len(t) \in Nat
      /\ DOMAIN s = 1..Len(s) /\ DOMAIN t = 1..Len(t)
      /\ DOMAIN u = 1..(Len(s) + Len(t))
      /\ \A i \in 1..(Len(s) + Len(t)) :
           u[i] = IF i <= Len(s) THEN s[i] ELSE t[i - Len(s)]
  <2>1. /\ u \in Seq(S) /\ Len(u) = Len(s) + Len(t)
        /\ \A i \in 1..(Len(s) + Len(t)) :
             u[i] = IF i <= Len(s) THEN s[i] ELSE t[i - Len(s)]
    BY ConcatProperties
  <2> HIDE DEF u
  <2>2. DOMAIN u = 1..Len(u) /\ DOMAIN s = 1..Len(s) /\ DOMAIN t = 1..Len(t)
        /\ Len(s) \in Nat /\ Len(t) \in Nat
    BY <2>1
  <2> QED
    BY <2>1, <2>2
<1> HIDE DEF u
<1>2. \A i \in 1..Len(s) : i \in DOMAIN u /\ u[i] = s[i]
  BY <1>1
<1>3. ASSUME NEW i \in 1..Len(t)
      PROVE  i + Len(s) \in DOMAIN u /\ u[i + Len(s)] = t[i]
  <2>1. /\ i + Len(s) \in 1..(Len(s) + Len(t))
        /\ ~(i + Len(s) <= Len(s)) /\ (i + Len(s)) - Len(s) = i
    BY <1>1
  <2> QED
    BY <1>1, <2>1
<1>4. ASSUME NEW i \in DOMAIN u, i \notin 1..Len(s)
      PROVE  i - Len(s) \in 1..Len(t) /\ u[i] = t[i - Len(s)]
  <2>1. i \in 1..(Len(s) + Len(t)) /\ ~(i <= Len(s))
    BY <1>1, <1>4
  <2>2. i - Len(s) \in 1..Len(t)
    BY <1>1, <2>1
  <2> QED
    BY <1>1, <2>1, <2>2
<1>5. Range(u) = Range(s) \cup Range(t)
  <2>1. ASSUME NEW i \in DOMAIN u PROVE u[i] \in Range(s) \cup Range(t)
    <3>1. CASE i \in 1..Len(s)
      BY <1>1, <1>2, <3>1 DEF Range
    <3>2. CASE i \notin 1..Len(s)
      BY <1>1, <1>4, <3>2 DEF Range
    <3> QED
      BY <3>1, <3>2
  <2>2. \A i \in 1..Len(s) : s[i] \in Range(u)
    BY <1>2 DEF Range
  <2>3. \A i \in 1..Len(t) : t[i] \in Range(u)
    BY <1>3 DEF Range
  <2> QED
    BY <1>1, <2>1, <2>2, <2>3 DEF Range
<1>6. ASSUME IsInjective(s), IsInjective(t), Range(s) \cap Range(t) = {}
      PROVE  IsInjective(u)
  <2> SUFFICES ASSUME NEW a \in DOMAIN u, NEW b \in DOMAIN u, u[a] = u[b]
               PROVE  a = b
    BY DEF IsInjective
  <2>1. CASE a \in 1..Len(s) /\ b \in 1..Len(s)
    BY <1>1, <1>2, <1>6, <2>1 DEF IsInjective
  <2>2. CASE a \notin 1..Len(s) /\ b \notin 1..Len(s)
    <3>1. /\ a - Len(s) \in DOMAIN t /\ u[a] = t[a - Len(s)]
          /\ b - Len(s) \in DOMAIN t /\ u[b] = t[b - Len(s)]
      BY <1>1, <1>4, <2>2
    <3>2. a - Len(s) = b - Len(s)
      BY <1>6, <3>1 DEF IsInjective
    <3> QED
      BY <1>1, <3>2
  <2>3. CASE a \in 1..Len(s) /\ b \notin 1..Len(s)
    <3>1. u[a] \in Range(s) /\ u[b] \in Range(t)
      BY <1>1, <1>4, <2>3 DEF Range
    <3> QED
      BY <1>6, <3>1
  <2>4. CASE a \notin 1..Len(s) /\ b \in 1..Len(s)
    <3>1. u[b] \in Range(s) /\ u[a] \in Range(t)
      BY <1>1, <1>4, <2>4 DEF Range
    <3> QED
      BY <1>6, <3>1
  <2> QED
    BY <2>1, <2>2, <2>3, <2>4
<1> QED
  BY <1>1, <1>5, <1>6 DEF u

---------------------------------------------------------------------------
\* The inductive invariant.

\* A worker that waits for or holds the lock of a call stands in its line; one
\* whose attempt was answered owns it.
LockInv ==
  \A x \in Busy : /\ job[x] \in Writes
                  /\ at[x] # "retry" => x \in Range(line[KeyOf[job[x]]])
                  /\ at[x] = "answered" => Head(line[KeyOf[job[x]]]) = x

\* Only accepted tasks are held or journaled, and a held durable one is journaled.
JournalInv ==
  /\ journal \subseteq Durable \cap Accepted
  /\ active \subseteq journal
  /\ Held \subseteq Accepted

\* A durable task leaves its worker only after it was decided.
AnsweredInv ==
  \A x \in Busy : at[x] = "answered" /\ job[x] \in Durable => job[x] \in rows \cup declined

\* What a call's teardown knows: while it waits, each durable task of the call is
\* written or still held, and nothing is refused before the call is terminal.
CallInv ==
  /\ declined \subseteq Durable
  /\ \A k \in Keys :
       /\ session[k] # "over" => status[k] = "open"
       /\ status[k] = "open" => OfKey(declined, k) = {}
       /\ session[k] \in {"live", "waiting"}
            => OfKey(Accepted \cap Durable, k) \subseteq rows \cup Held
       /\ before[k] \subseteq OfKey(Accepted, k)
       /\ session[k] = "drained" \/ status[k] = "final"
            => before[k] \cap Durable \subseteq rows

QueueInv == /\ TypeOK /\ LockInv /\ JournalInv /\ OneOwner /\ PendingCountsHeld
            /\ AnsweredInv /\ NothingLost /\ CallInv

---------------------------------------------------------------------------
\* Type correctness, with the lock line as the only part that needs an invariant:
\* only the owner leaves it, so it is not empty.

LEMMA InitTypeOK == Init => TypeOK
<1> SUFFICES ASSUME Init PROVE TypeOK
  OBVIOUS
<1>1. <<>> \in Seq(Writes) /\ <<>> \in Seq(Workers)
  OBVIOUS
<1> QED
  BY <1>1, PersistenceAssumption
  DEF Init, TypeOK, Phases, Locations, Statuses, Sessions

\* The steps of the environment and of teardown.
LEMMA OuterTypeOK ==
  ASSUME TypeOK,
         \/ \E k \in Keys : wait_for_key(k) \/ finalize_call(k) \/ abandon(k)
         \/ Crash \/ start \/ stop \/ Join \/ Stopped \/ Outage \/ Recovery
  PROVE  TypeOK'
<1> USE DEF TypeOK, memory, history, bounds
<1>1. ASSUME NEW k \in Keys, wait_for_key(k) PROVE TypeOK'
  <2>1. OfKey(Accepted, k) \subseteq Writes
    BY DEF OfKey, Accepted, Range
  <2> QED
    BY <1>1, <2>1 DEF wait_for_key, Sessions
<1>2. ASSUME NEW k \in Keys, finalize_call(k) \/ abandon(k) PROVE TypeOK'
  <2>1. /\ status' \in [Keys -> Statuses] /\ session' \in [Keys -> Sessions]
        /\ UNCHANGED <<phase, journal, memory, db, ledger, history, bounds>>
    <3>1. CASE finalize_call(k)
      <4>1. status' = status \/ status' = [status EXCEPT ![k] = "final"]
        BY <3>1 DEF finalize_call
      <4> QED
        BY <3>1, <4>1 DEF finalize_call, Sessions, Statuses
    <3>2. CASE abandon(k)
      BY <3>2 DEF abandon, Statuses
    <3> QED
      BY <1>2, <3>1, <3>2
  <2> QED
    BY <2>1
<1>3. CASE Crash \/ Stopped
  <2>1. /\ active' \subseteq Writes /\ overflow' \subseteq Writes
        /\ queue' \in Seq(Writes) /\ at' \in [Workers -> Locations]
        /\ job' \in [Workers -> Writes \cup {NoJob}] /\ line' \in [Keys -> Seq(Workers)]
        /\ pending' \in [Keys -> Nat] /\ drained' \in [Keys -> BOOLEAN]
    <3>1. EmptyMemory
      BY <1>3 DEF Crash, Stopped
    <3>2. <<>> \in Seq(Writes) /\ <<>> \in Seq(Workers) /\ "get" \in Locations
      BY DEF Locations
    <3> QED
      BY <3>1, <3>2 DEF EmptyMemory
  <2>2. /\ phase' \in Phases /\ session' \in [Keys -> Sessions] /\ crashes' \in 0..MaxCrashes
        /\ UNCHANGED <<journal, db, status, ledger, history, faults>>
    BY <1>3, PersistenceAssumption DEF Crash, Stopped, Phases, Sessions
  <2> QED
    BY <2>1, <2>2
<1>4. CASE start \/ stop \/ Join \/ Outage \/ Recovery
  <2>1. UNCHANGED <<journal, memory, status, ledger, session, history>>
    BY <1>4 DEF start, stop, Join, Outage, Recovery
  <2>2. phase' \in Phases /\ db' \in BOOLEAN
    BY <1>4 DEF start, stop, Join, Outage, Recovery, Phases
  <2>3. faults' = faults \/ (faults < MaxFaults /\ faults' = faults + 1)
    BY <1>4 DEF start, stop, Join, Outage, Recovery
  <2>4. crashes' = crashes \/ (crashes < MaxCrashes /\ crashes' = crashes + 1)
    BY <1>4 DEF start, stop, Join, Outage, Recovery
  <2>5. faults' \in 0..MaxFaults /\ crashes' \in 0..MaxCrashes
    BY <2>3, <2>4, PersistenceAssumption
  <2> QED
    BY <2>1, <2>2, <2>5
<1> QED
  BY <1>1, <1>2, <1>3, <1>4

\* What a scan takes from the spool directory.
IsScan(scan) ==
  /\ scan \in Seq(Writes) /\ IsInjective(scan)
  /\ Range(scan) \subseteq journal \ active /\ Range(scan) \subseteq Writes
  /\ queue' = queue \o scan
  /\ active' = active \cup Range(scan)
  /\ pending' = [k \in Keys |-> pending[k] + Cardinality(OfKey(Range(scan), k))]
  /\ drained' = [k \in Keys |-> drained[k] /\ OfKey(Range(scan), k) = {}]

LEMMA ReplayIsScan ==
  ASSUME TypeOK, ReplayJournals
  PROVE  \E scan : IsScan(scan)
<1>1. PICK n \in 1..(Capacity - Len(queue)) :
        \E scan \in Injection(1..n, journal \ active) :
          /\ queue' = queue \o scan
          /\ active' = active \cup Range(scan)
          /\ pending' = [k \in Keys |-> pending[k] + Cardinality(OfKey(Range(scan), k))]
          /\ drained' = [k \in Keys |-> drained[k] /\ OfKey(Range(scan), k) = {}]
  BY DEF ReplayJournals
<1>2. PICK scan \in Injection(1..n, journal \ active) :
          /\ queue' = queue \o scan
          /\ active' = active \cup Range(scan)
          /\ pending' = [k \in Keys |-> pending[k] + Cardinality(OfKey(Range(scan), k))]
          /\ drained' = [k \in Keys |-> drained[k] /\ OfKey(Range(scan), k) = {}]
  BY <1>1
<1>3. n \in Nat /\ scan \in [1..n -> journal \ active] /\ IsInjective(scan)
  <2>1. n \in Nat
    OBVIOUS
  <2>2. scan \in [1..n -> journal \ active] /\ IsInjective(scan)
    BY DEF Injection
  <2> QED
    BY <2>1, <2>2
<1>4. journal \ active \subseteq Writes
  BY DEF TypeOK
<1>5. scan \in Seq(Writes)
  BY <1>3, <1>4
<1>6. Range(scan) \subseteq journal \ active
  BY <1>3 DEF Range
<1> QED
  BY <1>2, <1>3, <1>4, <1>5, <1>6 DEF IsScan

\* The steps of enqueue, overflow and replay.
LEMMA IntakeTypeOK ==
  ASSUME TypeOK, (\E w \in Writes : enqueue(w)) \/ PutOverflow \/ ReplayJournals
  PROVE  TypeOK'
<1> USE DEF TypeOK, memory, history, bounds
<1>1. ASSUME NEW w \in Writes, enqueue(w) PROVE TypeOK'
  <2>1. KeyOf[w] \in Keys
    BY PersistenceAssumption
  <2>2. UNCHANGED <<phase, at, job, line, db, status, ledger, session, declined, before, crashes>>
    BY <1>1 DEF enqueue
  <2>3. journal' \subseteq Writes /\ active' \subseteq Writes
    BY <1>1 DEF enqueue, Refuse
  <2>4. faults' \in 0..MaxFaults
    <3>1. faults' = faults \/ (faults < MaxFaults /\ faults' = faults + 1)
      BY <1>1 DEF enqueue, Take
    <3> QED
      BY <3>1, PersistenceAssumption
  <2>5. CASE Take(w)
    <3>1. Append(accepted, w) \in Seq(Writes) /\ Append(queue, w) \in Seq(Writes)
      BY RangeAppend
    <3>2. accepted' \in Seq(Writes) /\ queue' \in Seq(Writes)
      BY <2>5, <3>1 DEF Take
    <3>3. pending' \in [Keys -> Nat] /\ drained' \in [Keys -> BOOLEAN]
      BY <2>1, <2>5 DEF Take
    <3>4. overflow' \subseteq Writes /\ refused' = refused
      BY <2>5 DEF Take
    <3> QED
      BY <2>2, <2>3, <2>4, <3>2, <3>3, <3>4
  <2>6. CASE Refuse(w)
    BY <2>2, <2>3, <2>4, <2>6 DEF Refuse
  <2> QED
    BY <1>1, <2>5, <2>6 DEF enqueue
<1>2. CASE PutOverflow
  <2>1. PICK w \in overflow : queue' = Append(queue, w) /\ overflow' = overflow \ {w}
    BY <1>2 DEF PutOverflow
  <2>2. queue' \in Seq(Writes)
    BY <2>1, RangeAppend
  <2> QED
    BY <1>2, <2>1, <2>2 DEF PutOverflow
<1>3. CASE ReplayJournals
  <2>1. PICK scan : IsScan(scan)
    BY <1>3, ReplayIsScan
  <2>2. scan \in Seq(Writes) /\ Range(scan) \subseteq Writes
    BY <2>1 DEF IsScan
  <2>3. queue' \in Seq(Writes)
    BY <2>1, <2>2, RangeConcat DEF IsScan
  <2>4. \A k \in Keys : Cardinality(OfKey(Range(scan), k)) \in Nat
    <3>1. \A k \in Keys : OfKey(Range(scan), k) \subseteq Writes
      BY <2>2 DEF OfKey
    <3> QED
      BY <3>1, FS_Subset, FS_CardinalityType, PersistenceAssumption
  <2>5. pending' \in [Keys -> Nat]
    BY <2>1, <2>4 DEF IsScan
  <2>6. drained' \in [Keys -> BOOLEAN] /\ active' \subseteq Writes
    BY <2>1, <2>2 DEF IsScan
  <2>7. UNCHANGED <<phase, journal, overflow, at, job, line, db, status, ledger,
                    session, history, bounds>>
    BY <1>3 DEF ReplayJournals
  <2> QED
    BY <2>3, <2>5, <2>6, <2>7
<1> QED
  BY <1>1, <1>2, <1>3

\* Finitely many tasks are held, so the counts are numbers; a worker's own task is
\* one of them.
LEMMA HeldFinite ==
  ASSUME TypeOK, \A x \in Busy : job[x] \in Writes
  PROVE  /\ Held \subseteq Writes
         /\ \A k \in Keys : IsFiniteSet(OfKey(Held, k))
         /\ \A x \in Busy : job[x] \in OfKey(Held, KeyOf[job[x]])
<1>1. Held \subseteq Writes
  BY DEF Held, TypeOK, Range, Busy
<1>2. \A k \in Keys : IsFiniteSet(OfKey(Held, k))
  <2>1. \A k \in Keys : OfKey(Held, k) \subseteq Writes
    BY <1>1 DEF OfKey
  <2> QED
    BY <2>1, FS_Subset, PersistenceAssumption
<1>3. \A x \in Busy : job[x] \in OfKey(Held, KeyOf[job[x]])
  BY DEF OfKey, Held
<1> QED
  BY <1>1, <1>2, <1>3

LEMMA BusyIsCounted ==
  ASSUME TypeOK, LockInv, PendingCountsHeld, NEW x \in Busy
  PROVE  LET k == KeyOf[job[x]] IN k \in Keys /\ pending[k] \in Nat \ {0}
<1> DEFINE k == KeyOf[job[x]]
<1>1. \A y \in Busy : job[y] \in Writes
  BY DEF LockInv
<1>2. k \in Keys
  BY <1>1, PersistenceAssumption
<1>3. pending[k] = Cardinality(OfKey(Held, k)) /\ pending[k] \in Nat
  BY <1>2 DEF PendingCountsHeld, TypeOK
<1>4. IsFiniteSet(OfKey(Held, k)) /\ OfKey(Held, k) # {}
  BY <1>1, <1>2, HeldFinite
<1> QED
  BY <1>2, <1>3, <1>4, FS_EmptySet

\* The owner of a lock is the head of its line.
LEMMA OwnerHeadsLine ==
  ASSUME TypeOK, LockInv, NEW x \in Busy, OwnsLock(x) \/ at[x] = "answered"
  PROVE  LET k == KeyOf[job[x]]
         IN /\ k \in Keys /\ job[x] \in Writes
            /\ line[k] \in Seq(Workers) /\ line[k] # <<>> /\ Head(line[k]) = x
            /\ Tail(line[k]) \in Seq(Workers)
            /\ Range(line[k]) = {x} \cup Range(Tail(line[k]))
<1> DEFINE k == KeyOf[job[x]]
<1>1. k \in Keys /\ job[x] \in Writes
  BY PersistenceAssumption DEF LockInv
<1>2. Head(line[k]) = x /\ x \in Range(line[k])
  BY DEF LockInv, OwnsLock
<1>3. line[k] \in Seq(Workers) /\ line[k] # <<>>
  BY <1>1, <1>2 DEF TypeOK, Range
<1> QED
  BY <1>1, <1>2, <1>3, RangeTail

\* The steps of a worker.
LEMMA WorkerTypeOK ==
  ASSUME TypeOK, LockInv, PendingCountsHeld, NEW x \in Workers, Worker(x)
  PROVE  TypeOK'
<1> DEFINE w == job[x]
           k == KeyOf[w]
<1>1. CASE Get(x)
  <2>1. queue \in Seq(Writes) /\ queue # <<>>
    BY <1>1 DEF Get, TypeOK
  <2>2. Head(queue) \in Writes /\ queue' \in Seq(Writes)
    BY <1>1, <2>1, RangeTail DEF Get
  <2>3. KeyOf[Head(queue)] \in Keys
    BY <2>2, PersistenceAssumption
  <2>4. Append(line[KeyOf[Head(queue)]], x) \in Seq(Workers)
    BY <2>3, RangeAppend DEF TypeOK
  <2>5. line' \in [Keys -> Seq(Workers)]
    BY <1>1, <2>3, <2>4 DEF Get, TypeOK
  <2>6. job' \in [Workers -> Writes \cup {NoJob}] /\ at' \in [Workers -> Locations]
    BY <1>1, <2>2 DEF Get, TypeOK, Locations
  <2> QED
    BY <1>1, <2>2, <2>5, <2>6 DEF Get, TypeOK, history, bounds
<1>2. CASE at[x] = "retry" /\ Retry(x)
  <2>1. k \in Keys
    BY <1>2, PersistenceAssumption DEF LockInv, Busy
  <2>2. Append(line[k], x) \in Seq(Workers)
    BY <2>1, RangeAppend DEF TypeOK
  <2>3. line' \in [Keys -> Seq(Workers)] /\ at' \in [Workers -> Locations]
    BY <1>2, <2>1, <2>2 DEF Retry, TypeOK, Locations
  <2> QED
    BY <1>2, <2>3 DEF Retry, untouched, TypeOK
<1>3. CASE Finish(x)
  <2>1. x \in Busy /\ at[x] = "answered"
    BY <1>3 DEF Finish, Busy
  <2>2. k \in Keys /\ pending[k] \in Nat \ {0} /\ Tail(line[k]) \in Seq(Workers)
    BY <2>1, BusyIsCounted, OwnerHeadsLine
  <2>3. line' \in [Keys -> Seq(Workers)] /\ at' \in [Workers -> Locations]
    BY <1>3, <2>2 DEF Finish, TypeOK, Locations
  <2>4. job' \in [Workers -> Writes \cup {NoJob}]
    BY <1>3 DEF Finish, TypeOK
  <2>5. pending[k] - 1 \in Nat
    BY <2>2
  <2>6. pending' \in [Keys -> Nat]
    BY <1>3, <2>2, <2>5 DEF Finish, TypeOK
  <2>7. drained' \in [Keys -> BOOLEAN] /\ session' \in [Keys -> Sessions]
    <3>1. drained' = [drained EXCEPT ![k] = pending[k] = 1]
      BY <1>3 DEF Finish
    <3>2. session' = session \/ session' = [session EXCEPT ![k] = "drained"]
      BY <1>3, <2>2 DEF Finish, TypeOK
    <3>3. drained' \in [Keys -> BOOLEAN]
      BY <3>1 DEF TypeOK
    <3>4. session' \in [Keys -> Sessions]
      BY <3>2 DEF TypeOK, Sessions
    <3> QED
      BY <3>3, <3>4
  <2>8. journal' \subseteq Writes /\ active' \subseteq Writes
    BY <1>3 DEF Finish, TypeOK
  <2>9. UNCHANGED <<phase, queue, overflow, db, status, ledger, accepted, refused, declined,
                    before, faults, crashes>>
    BY <1>3 DEF Finish, history, bounds
  <2> QED
    BY <2>3, <2>4, <2>6, <2>7, <2>8, <2>9 DEF TypeOK
<1>4. CASE OwnsLock(x) /\ (Commit(x) \/ Decline(x) \/ RunPlain(x) \/ Fail(x))
  <2>1. x \in Busy
    BY <1>4 DEF OwnsLock, Busy
  <2>2. k \in Keys /\ w \in Writes /\ Tail(line[k]) \in Seq(Workers)
    BY <1>4, <2>1, OwnerHeadsLine
  <2>3. Answer(x) \/ BackOff(x)
    BY <1>4 DEF Commit, Decline, RunPlain, Fail
  <2>4. line' \in [Keys -> Seq(Workers)] /\ at' \in [Workers -> Locations]
    BY <2>2, <2>3 DEF Answer, BackOff, TypeOK, Locations
  <2>5. ledger' = ledger \/ ledger' = Committed(w)
    BY <1>4 DEF Commit, Decline, RunPlain, Fail
  <2>6. ledger' \in [Keys -> Seq(Writes)]
    <3>1. Append(ledger[k], w) \in Seq(Writes)
      BY <2>2, RangeAppend DEF TypeOK
    <3> QED
      BY <2>2, <2>5, <3>1 DEF Committed, TypeOK
  <2>7. declined' \subseteq Writes
    BY <1>4, <2>2 DEF Commit, Decline, RunPlain, Fail, TypeOK
  <2>8. faults' \in 0..MaxFaults
    BY <1>4, PersistenceAssumption DEF Commit, Decline, RunPlain, Fail, TypeOK
  <2>9. untouched /\ UNCHANGED <<pending, drained>>
    BY <1>4 DEF Commit, Decline, RunPlain, Fail
  <2> QED
    BY <2>4, <2>6, <2>7, <2>8, <2>9 DEF untouched, TypeOK
<1> QED
  BY <1>1, <1>2, <1>3, <1>4 DEF Worker, Retry, Commit, Decline, RunPlain, Fail

---------------------------------------------------------------------------
\* The steps that leave the queue and the ledger alone.

QueuePart == /\ LockInv /\ JournalInv /\ OneOwner /\ PendingCountsHeld
             /\ AnsweredInv /\ NothingLost

LEMMA QueuePartUntouched ==
  ASSUME QueuePart, UNCHANGED <<journal, memory, ledger, accepted, declined>>
  PROVE  QueuePart'
<1>1. /\ Busy' = Busy /\ Held' = Held /\ Accepted' = Accepted /\ rows' = rows
      /\ UNCHANGED <<journal, active, queue, overflow, at, job, line, pending, drained,
                     declined>>
  BY DEF memory, Busy, Held, Accepted, rows
<1>2. LockInv' /\ JournalInv' /\ OneOwner' /\ AnsweredInv' /\ NothingLost'
  BY <1>1 DEF QueuePart, LockInv, JournalInv, OneOwner, AnsweredInv, NothingLost
<1>3. PendingCountsHeld'
  BY <1>1 DEF QueuePart, PendingCountsHeld, OfKey
<1> QED
  BY <1>2, <1>3 DEF QueuePart

\* Teardown: a call reaches "drained" only with nothing of it held, and only then
\* becomes final.
LEMMA TeardownKeepsCallInv ==
  ASSUME QueueInv, NEW c \in Keys, wait_for_key(c) \/ finalize_call(c) \/ abandon(c)
  PROVE  CallInv'
<1>1. UNCHANGED <<journal, memory, ledger, accepted, declined>>
  BY DEF wait_for_key, finalize_call, abandon, history
<1>2. /\ Held' = Held /\ Accepted' = Accepted /\ rows' = rows
      /\ \A k \in Keys : OfKey(declined, k)' = OfKey(declined, k)
      /\ \A k \in Keys : OfKey(Accepted, k)' = OfKey(Accepted, k)
      /\ \A k \in Keys : OfKey(Accepted \cap Durable, k)' = OfKey(Accepted \cap Durable, k)
  BY <1>1 DEF memory, Busy, Held, Accepted, rows, OfKey
<1>3. CASE wait_for_key(c)
  <2>1. /\ session[c] = "live" /\ UNCHANGED status
        /\ before' = [before EXCEPT ![c] = OfKey(Accepted, c)]
        /\ session' = [session EXCEPT ![c] = IF pending[c] = 0 THEN "drained" ELSE "waiting"]
    BY <1>3 DEF wait_for_key
  <2>2. pending[c] = 0 => OfKey(Held, c) = {}
    <3>1. \A x \in Busy : job[x] \in Writes
      BY DEF QueueInv, LockInv
    <3> QED
      BY <3>1, HeldFinite, FS_EmptySet DEF QueueInv, PendingCountsHeld
  <2>3. pending[c] = 0 => OfKey(Accepted, c) \cap Durable \subseteq rows
    BY <2>1, <2>2 DEF QueueInv, CallInv, OfKey
  <2>4. status[c] = "open"
    BY <2>1 DEF QueueInv, CallInv
  <2> QED
    BY <1>1, <1>2, <2>1, <2>3, <2>4 DEF QueueInv, TypeOK, CallInv
<1>4. CASE finalize_call(c)
  BY <1>1, <1>2, <1>4 DEF finalize_call, history, QueueInv, TypeOK, CallInv
<1>5. CASE abandon(c)
  BY <1>1, <1>2, <1>5 DEF abandon, history, QueueInv, TypeOK, CallInv
<1> QED
  BY <1>3, <1>4, <1>5

\* A restart loses every held task, and every session with it.
LEMMA RestartKeepsQueueInv ==
  ASSUME QueueInv, Crash \/ Stopped
  PROVE  QueueInv'
<1>1. /\ EmptyMemory /\ session' = [k \in Keys |-> "over"]
      /\ UNCHANGED <<journal, status, ledger, accepted, declined, before>>
  BY DEF Crash, Stopped, history
<1>2. TypeOK'
  BY OuterTypeOK DEF QueueInv
<1>3. /\ Busy' = {} /\ Held' = {} /\ Accepted' = Accepted /\ rows' = rows
      /\ active' = {} /\ queue' = <<>> /\ overflow' = {}
  BY <1>1 DEF EmptyMemory, Busy, Held, Accepted, rows, Range
<1>4. LockInv' /\ JournalInv' /\ AnsweredInv' /\ NothingLost'
  BY <1>1, <1>3 DEF QueueInv, LockInv, JournalInv, AnsweredInv, NothingLost
<1>5. OneOwner'
  BY <1>3 DEF OneOwner, IsInjective, Range
<1>6. PendingCountsHeld'
  <2>1. \A k \in Keys : OfKey(Held, k)' = {}
    BY <1>3 DEF OfKey
  <2> QED
    BY <1>1, <2>1, FS_EmptySet DEF EmptyMemory, PendingCountsHeld
<1>7. CallInv'
  BY <1>1, <1>3 DEF QueueInv, CallInv, OfKey
<1> QED
  BY <1>2, <1>4, <1>5, <1>6, <1>7 DEF QueueInv

\* All steps of the environment and of teardown.
LEMMA OuterKeepsQueueInv ==
  ASSUME QueueInv,
         \/ \E k \in Keys : wait_for_key(k) \/ finalize_call(k) \/ abandon(k)
         \/ Crash \/ start \/ stop \/ Join \/ Stopped \/ Outage \/ Recovery
  PROVE  QueueInv'
<1>1. TypeOK'
  BY OuterTypeOK DEF QueueInv
<1>2. CASE \E k \in Keys : wait_for_key(k) \/ finalize_call(k) \/ abandon(k)
  <2>1. UNCHANGED <<journal, memory, ledger, accepted, declined>>
    BY <1>2 DEF wait_for_key, finalize_call, abandon, history
  <2>2. QueuePart'
    BY <2>1, QueuePartUntouched DEF QueueInv, QueuePart
  <2> QED
    BY <1>1, <1>2, <2>2, TeardownKeepsCallInv DEF QueueInv, QueuePart
<1>3. CASE start \/ stop \/ Join \/ Outage \/ Recovery
  <2>1. UNCHANGED <<journal, memory, status, ledger, session, history>>
    BY <1>3 DEF start, stop, Join, Outage, Recovery
  <2>2. QueuePart'
    BY <2>1, QueuePartUntouched DEF QueueInv, QueuePart, history
  <2>3. CallInv'
    <3>1. /\ Held' = Held /\ Accepted' = Accepted /\ rows' = rows
          /\ UNCHANGED <<declined, session, status, before>>
      BY <2>1 DEF memory, history, Busy, Held, Accepted, rows
    <3> QED
      BY <3>1 DEF QueueInv, CallInv, OfKey
  <2> QED
    BY <1>1, <2>2, <2>3 DEF QueueInv, QueuePart
<1> QED
  BY <1>2, <1>3, RestartKeepsQueueInv

---------------------------------------------------------------------------
\* The steps that bring tasks in.

\* enqueue of a fresh task: it is held, in the queue or in an overflow task.
LEMMA TakeHolds ==
  ASSUME QueueInv, NEW w \in Writes, enqueue(w), Take(w)
  PROVE  /\ w \notin Held /\ Busy' = Busy
         /\ Held' = Held \cup {w} /\ Accepted' = Accepted \cup {w}
         /\ IsInjective(queue') /\ overflow' \cap Range(queue') = {}
         /\ Range(queue') \cup overflow' = Range(queue) \cup overflow \cup {w}
<1>1. w \notin Held /\ w \notin Accepted
  BY DEF enqueue, QueueInv, JournalInv
<1>2. UNCHANGED <<at, job>> /\ Busy' = Busy
  BY DEF enqueue, Busy
<1>3. accepted \in Seq(Writes) /\ queue \in Seq(Writes)
  BY DEF QueueInv, TypeOK
<1>4. Accepted' = Accepted \cup {w}
  BY <1>3, RangeAppend DEF Take, Accepted
<1>5. w \notin Range(queue) /\ w \notin overflow /\ IsInjective(queue)
      /\ overflow \cap Range(queue) = {}
  BY <1>1 DEF Held, QueueInv, OneOwner
<1>6. CASE queue' = Append(queue, w) /\ overflow' = overflow
  <2>1. Range(queue') = Range(queue) \cup {w} /\ IsInjective(queue')
    BY <1>3, <1>5, <1>6, RangeAppend
  <2> QED
    BY <1>1, <1>2, <1>4, <1>5, <1>6, <2>1 DEF Held
<1>7. CASE queue' = queue /\ overflow' = overflow \cup {w}
  BY <1>1, <1>2, <1>4, <1>5, <1>7 DEF Held
<1> QED
  BY <1>6, <1>7 DEF Take

\* Counting one more task of one call.
LEMMA CountOneMore ==
  ASSUME QueueInv, NEW w \in Writes, w \notin Held, Held' = Held \cup {w},
         pending' = [pending EXCEPT ![KeyOf[w]] = @ + 1],
         drained' = [drained EXCEPT ![KeyOf[w]] = FALSE]
  PROVE  PendingCountsHeld'
<1>1. KeyOf[w] \in Keys
  BY PersistenceAssumption
<1>2. \A x \in Busy : job[x] \in Writes
  BY DEF QueueInv, LockInv
<1>3. ASSUME NEW k \in Keys
      PROVE  pending'[k] = Cardinality(OfKey(Held', k)) /\ drained'[k] = (pending'[k] = 0)
  <2>1. /\ pending[k] = Cardinality(OfKey(Held, k)) /\ drained[k] = (pending[k] = 0)
        /\ pending[k] \in Nat /\ IsFiniteSet(OfKey(Held, k))
    BY <1>2, HeldFinite DEF QueueInv, TypeOK, PendingCountsHeld
  <2>2. CASE k = KeyOf[w]
    <3>1. OfKey(Held', k) = OfKey(Held, k) \cup {w} /\ w \notin OfKey(Held, k)
      BY <2>2 DEF OfKey
    <3>2. Cardinality(OfKey(Held', k)) = Cardinality(OfKey(Held, k)) + 1
      BY <2>1, <3>1, FS_AddElement
    <3>3. pending'[k] = pending[k] + 1 /\ drained'[k] = FALSE
      BY <1>1, <2>2 DEF QueueInv, TypeOK
    <3>4. pending'[k] = Cardinality(OfKey(Held', k))
      BY <2>1, <3>2, <3>3
    <3>5. pending'[k] # 0
      BY <2>1, <3>3
    <3> QED
      BY <3>3, <3>4, <3>5, Zenon
  <2>3. CASE k # KeyOf[w]
    <3>1. OfKey(Held', k) = OfKey(Held, k)
      BY <2>3 DEF OfKey
    <3> QED
      BY <1>1, <2>1, <2>3, <3>1 DEF QueueInv, TypeOK
  <2> QED
    BY <2>2, <2>3
<1>4. \A k \in Keys : OfKey(Held, k)' = OfKey(Held', k)
  BY DEF OfKey
<1> QED
  BY <1>3, <1>4 DEF PendingCountsHeld

LEMMA EnqueueKeepsQueueInv ==
  ASSUME QueueInv, NEW w \in Writes, enqueue(w)
  PROVE  QueueInv'
<1>1. TypeOK'
  BY IntakeTypeOK DEF QueueInv
<1>2. UNCHANGED <<at, job, line, ledger, status, session, declined, before>>
  BY DEF enqueue
<1>3. CASE Refuse(w)
  <2>1. UNCHANGED <<journal, memory, ledger, accepted, declined>>
    BY <1>2, <1>3 DEF Refuse, memory
  <2>2. QueuePart'
    BY <2>1, QueuePartUntouched DEF QueueInv, QueuePart
  <2>3. Held' = Held /\ Accepted' = Accepted /\ rows' = rows
    BY <2>1 DEF memory, Busy, Held, Accepted, rows
  <2>4. CallInv'
    BY <1>2, <2>3 DEF QueueInv, CallInv, OfKey
  <2> QED
    BY <1>1, <2>2, <2>4 DEF QueueInv, QueuePart
<1>4. CASE Take(w)
  <2>1. /\ w \notin Held /\ Busy' = Busy
        /\ Held' = Held \cup {w} /\ Accepted' = Accepted \cup {w}
        /\ IsInjective(queue') /\ overflow' \cap Range(queue') = {}
        /\ Range(queue') \cup overflow' = Range(queue) \cup overflow \cup {w}
    BY <1>4, TakeHolds
  <2>2. rows' = rows
    BY <1>2 DEF rows
  <2>3. \/ w \in Durable /\ journal' = journal \cup {w} /\ active' = active \cup {w}
        \/ w \notin Durable /\ journal' = journal /\ active' = active
    <3>1. w \notin Accepted /\ w \in Accepted'
      BY <2>1 DEF enqueue
    <3>2. ~Refuse(w)
      BY <3>1 DEF Refuse, Accepted
    <3> QED
      BY <3>2 DEF enqueue
  <2>4. LockInv' /\ AnsweredInv'
    BY <1>2, <2>1, <2>2 DEF QueueInv, LockInv, AnsweredInv
  <2>5. JournalInv' /\ NothingLost'
    BY <1>2, <2>1, <2>2, <2>3 DEF QueueInv, JournalInv, NothingLost
  <2>6. OneOwner'
    <3>1. active' = Held' \cap Durable
      BY <2>1, <2>3 DEF QueueInv, OneOwner
    <3>2. \A x \in Busy : job[x] # w
      BY <2>1 DEF Held
    <3> QED
      BY <1>2, <2>1, <3>1, <3>2 DEF QueueInv, OneOwner
  <2>7. PendingCountsHeld'
    BY <1>4, <2>1, CountOneMore DEF Take
  <2>8. CallInv'
    BY <1>2, <2>1, <2>2 DEF QueueInv, CallInv, OfKey
  <2> QED
    BY <1>1, <2>4, <2>5, <2>6, <2>7, <2>8 DEF QueueInv
<1> QED
  BY <1>3, <1>4 DEF enqueue

\* An overflow task only moves its item into the queue.
LEMMA OverflowKeepsQueueInv ==
  ASSUME QueueInv, PutOverflow
  PROVE  QueueInv'
<1>1. TypeOK'
  BY IntakeTypeOK DEF QueueInv
<1>2. UNCHANGED <<journal, active, at, job, line, pending, drained, status, ledger,
                  session, history>>
  BY DEF PutOverflow
<1>3. PICK w \in overflow : overflow' = overflow \ {w} /\ queue' = Append(queue, w)
  BY DEF PutOverflow
<1>4. queue \in Seq(Writes) /\ w \in Writes /\ IsInjective(queue) /\ w \notin Range(queue)
  BY DEF QueueInv, TypeOK, OneOwner
<1>5. Range(queue') = Range(queue) \cup {w} /\ IsInjective(queue')
  BY <1>3, <1>4, RangeAppend
<1>6. Held' = Held /\ Busy' = Busy /\ rows' = rows /\ Accepted' = Accepted
  BY <1>2, <1>3, <1>5 DEF Held, Busy, rows, Accepted, history
<1>7. OneOwner'
  BY <1>2, <1>3, <1>5, <1>6 DEF QueueInv, OneOwner
<1>8. LockInv' /\ JournalInv' /\ AnsweredInv' /\ NothingLost' /\ CallInv'
  BY <1>2, <1>6
  DEF QueueInv, LockInv, JournalInv, AnsweredInv, NothingLost, CallInv, OfKey, history
<1>9. PendingCountsHeld'
  BY <1>2, <1>6 DEF QueueInv, PendingCountsHeld, OfKey
<1> QED
  BY <1>1, <1>7, <1>8, <1>9 DEF QueueInv

\* A scan holds only what nobody held.
LEMMA ReplayKeepsQueueInv ==
  ASSUME QueueInv, ReplayJournals
  PROVE  QueueInv'
<1>1. TypeOK'
  BY IntakeTypeOK DEF QueueInv
<1>2. UNCHANGED <<journal, overflow, at, job, line, status, ledger, session, history>>
  BY DEF ReplayJournals
<1>3. PICK scan : IsScan(scan)
  BY ReplayIsScan DEF QueueInv
<1> DEFINE new == Range(scan)
<1>4. new \cap Held = {} /\ new \subseteq Durable /\ new \subseteq Accepted /\ new \subseteq journal
      /\ new \subseteq Writes
  BY <1>3 DEF IsScan, QueueInv, JournalInv, OneOwner
<1>5. Range(queue') = Range(queue) \cup new /\ IsInjective(queue')
  <2>1. queue \in Seq(Writes) /\ IsInjective(queue) /\ Range(queue) \cap new = {}
    BY <1>4 DEF QueueInv, TypeOK, OneOwner, Held
  <2> QED
    BY <1>3, <2>1, RangeConcat DEF IsScan
<1>6. Held' = Held \cup new /\ Busy' = Busy /\ rows' = rows /\ Accepted' = Accepted
  BY <1>2, <1>5 DEF Held, Busy, rows, Accepted, history
<1>7. active' = active \cup new
  BY <1>3 DEF IsScan
<1>8. OneOwner'
  <2>1. active' = Held' \cap Durable
    BY <1>4, <1>6, <1>7 DEF QueueInv, OneOwner
  <2>2. overflow \cap new = {} /\ \A x \in Busy : job[x] \notin new
    BY <1>4 DEF Held
  <2> QED
    BY <1>2, <1>5, <1>6, <2>1, <2>2 DEF QueueInv, OneOwner
<1>9. LockInv' /\ JournalInv' /\ AnsweredInv' /\ NothingLost' /\ CallInv'
  BY <1>2, <1>4, <1>6, <1>7
  DEF QueueInv, LockInv, JournalInv, AnsweredInv, NothingLost, CallInv, OfKey, history
<1>10. PendingCountsHeld'
  <2>1. \A x \in Busy : job[x] \in Writes
    BY DEF QueueInv, LockInv
  <2>2. ASSUME NEW k \in Keys
        PROVE  pending'[k] = Cardinality(OfKey(Held', k)) /\ drained'[k] = (pending'[k] = 0)
    <3>1. /\ pending[k] = Cardinality(OfKey(Held, k)) /\ drained[k] = (pending[k] = 0)
          /\ IsFiniteSet(OfKey(Held, k))
      BY <2>1, HeldFinite DEF QueueInv, PendingCountsHeld
    <3>2. IsFiniteSet(OfKey(new, k))
      <4>1. OfKey(new, k) \subseteq Writes
        BY <1>4 DEF OfKey
      <4> QED
        BY <4>1, FS_Subset, PersistenceAssumption
    <3>3. /\ OfKey(Held', k) = OfKey(Held, k) \cup OfKey(new, k)
          /\ OfKey(Held, k) \cap OfKey(new, k) = {}
      BY <1>4, <1>6 DEF OfKey
    <3> DEFINE old == Cardinality(OfKey(Held, k))
               more == Cardinality(OfKey(new, k))
    <3>4. old \in Nat /\ more \in Nat /\ Cardinality(OfKey(Held', k)) = old + more
      <4>1. Cardinality(OfKey(Held, k) \cap OfKey(new, k)) = 0
        BY <3>3, FS_EmptySet
      <4>2. old \in Nat /\ more \in Nat
        BY <3>1, <3>2, FS_CardinalityType
      <4>3. Cardinality(OfKey(Held, k) \cup OfKey(new, k))
              = old + more - Cardinality(OfKey(Held, k) \cap OfKey(new, k))
        BY <3>1, <3>2, FS_Union
      <4> QED
        BY <3>3, <4>1, <4>2, <4>3
    <3>5. pending'[k] = pending[k] + Cardinality(OfKey(new, k))
          /\ drained'[k] = (drained[k] /\ OfKey(new, k) = {})
      BY <1>3 DEF IsScan
    <3>6. Cardinality(OfKey(new, k)) = 0 <=> OfKey(new, k) = {}
      BY <3>2, FS_EmptySet
    <3> HIDE DEF old, more
    <3>7. pending'[k] = Cardinality(OfKey(Held', k))
      BY <3>1, <3>4, <3>5 DEF old, more
    <3>8. pending'[k] = 0 <=> pending[k] = 0 /\ OfKey(new, k) = {}
      <4>1. pending[k] = old /\ pending'[k] = old + more
        BY <3>1, <3>5 DEF old, more
      <4>2. pending'[k] = 0 <=> old = 0 /\ more = 0
        BY <3>4, <4>1
      <4> QED
        BY <3>6, <4>1, <4>2 DEF more
    <3> QED
      BY <3>1, <3>5, <3>7, <3>8, Zenon
  <2>3. \A k \in Keys : OfKey(Held, k)' = OfKey(Held', k)
    BY DEF OfKey
  <2> QED
    BY <2>2, <2>3 DEF PendingCountsHeld
<1> QED
  BY <1>1, <1>8, <1>9, <1>10 DEF QueueInv

---------------------------------------------------------------------------
\* The steps of a worker.

\* A worker's task moves from the queue to the worker and stays held.
LEMMA GetHolds ==
  ASSUME QueueInv, NEW x \in Workers, Get(x)
  PROVE  /\ queue \in Seq(Writes) /\ queue # <<>> /\ Head(queue) \in Writes
         /\ Range(queue) = {Head(queue)} \cup Range(queue')
         /\ IsInjective(queue') /\ Head(queue) \notin Range(queue')
         /\ x \notin Busy /\ Busy' = Busy \cup {x}
         /\ job'[x] = Head(queue) /\ \A y \in Busy : job'[y] = job[y]
         /\ at'[x] = "turn" /\ \A y \in Busy : at'[y] = at[y]
         /\ Held' = Held
<1>1. queue \in Seq(Writes) /\ queue # <<>> /\ IsInjective(queue) /\ queue' = Tail(queue)
  BY DEF Get, QueueInv, TypeOK, OneOwner
<1>2. /\ Head(queue) \in Writes /\ Range(queue) = {Head(queue)} \cup Range(queue')
      /\ IsInjective(queue') /\ Head(queue) \notin Range(queue')
  BY <1>1, RangeTail
<1>3. x \notin Busy /\ Busy \subseteq Workers
  BY DEF Get, Busy
<1>4. /\ job'[x] = Head(queue) /\ \A y \in Busy : job'[y] = job[y]
      /\ at'[x] = "turn" /\ \A y \in Workers : y # x => at'[y] = at[y]
  BY <1>3 DEF Get, QueueInv, TypeOK
<1>5. Busy' = Busy \cup {x}
  BY <1>3, <1>4 DEF Busy
<1>6. overflow' = overflow
  BY DEF Get
<1>7. {job'[y] : y \in Busy'} = {job[y] : y \in Busy} \cup {Head(queue)}
  BY <1>4, <1>5
<1>8. Held' = Held
  BY <1>2, <1>6, <1>7 DEF Held
<1> QED
  BY <1>1, <1>2, <1>3, <1>4, <1>5, <1>8

LEMMA GetKeepsQueueInv ==
  ASSUME QueueInv, NEW x \in Workers, Get(x)
  PROVE  QueueInv'
<1> DEFINE h == Head(queue)
<1>1. TypeOK'
  BY WorkerTypeOK DEF Worker, QueueInv
<1>2. /\ h \in Writes
      /\ Range(queue) = {h} \cup Range(queue') /\ IsInjective(queue') /\ h \notin Range(queue')
      /\ x \notin Busy /\ Busy' = Busy \cup {x}
      /\ job'[x] = h /\ \A y \in Busy : job'[y] = job[y]
      /\ at'[x] = "turn" /\ \A y \in Busy : at'[y] = at[y]
      /\ Held' = Held
  BY GetHolds
<1>3. UNCHANGED <<journal, active, overflow, pending, drained, status, ledger, session,
                  accepted, declined, before>>
  BY DEF Get, history
<1>4. Accepted' = Accepted /\ rows' = rows
  BY <1>3 DEF Accepted, rows
<1>5. KeyOf[h] \in Keys
  BY <1>2, PersistenceAssumption
<1>6. /\ \A k \in Keys : k # KeyOf[h] => line'[k] = line[k]
      /\ line'[KeyOf[h]] = Append(line[KeyOf[h]], x)
  BY <1>5 DEF Get, QueueInv, TypeOK
<1>7. LockInv'
  <2>1. line[KeyOf[h]] \in Seq(Workers)
    BY <1>5 DEF QueueInv, TypeOK
  <2>2. Range(line'[KeyOf[h]]) = Range(line[KeyOf[h]]) \cup {x}
    BY <1>6, <2>1, RangeAppend
  <2>3. ASSUME NEW y \in Busy
        PROVE  /\ job'[y] \in Writes
               /\ at'[y] # "retry" => y \in Range(line'[KeyOf[job'[y]]])
               /\ at'[y] = "answered" => Head(line'[KeyOf[job'[y]]]) = y
    <3>1. /\ job[y] \in Writes /\ KeyOf[job[y]] \in Keys
          /\ at[y] # "retry" => y \in Range(line[KeyOf[job[y]]])
          /\ at[y] = "answered" => Head(line[KeyOf[job[y]]]) = y
      BY PersistenceAssumption DEF QueueInv, LockInv
    <3>2. CASE KeyOf[job[y]] = KeyOf[h]
      <4>1. at[y] = "answered" => Head(Append(line[KeyOf[h]], x)) = Head(line[KeyOf[h]])
        <5>1. at[y] = "answered" => line[KeyOf[h]] # <<>>
          BY <3>1, <3>2 DEF Range
        <5> QED
          BY <2>1, <5>1
      <4> QED
        BY <1>2, <1>6, <2>2, <3>1, <3>2, <4>1
    <3>3. CASE KeyOf[job[y]] # KeyOf[h]
      BY <1>2, <1>6, <3>1, <3>3
    <3> QED
      BY <3>2, <3>3
  <2>4. /\ job'[x] \in Writes /\ x \in Range(line'[KeyOf[job'[x]]])
        /\ at'[x] # "answered"
    BY <1>2, <2>2
  <2> QED
    BY <1>2, <2>3, <2>4 DEF LockInv
<1>8. JournalInv' /\ NothingLost'
  BY <1>2, <1>3, <1>4 DEF QueueInv, JournalInv, NothingLost
<1>9. OneOwner'
  <2>1. active' = Held' \cap Durable
    BY <1>2, <1>3 DEF QueueInv, OneOwner
  <2>2. /\ overflow \cap Range(queue) = {}
        /\ \A y \in Busy : job[y] \notin Range(queue) \cup overflow
        /\ \A y, z \in Busy : job[y] = job[z] => y = z
    BY DEF QueueInv, OneOwner
  <2>3. h \in Range(queue)
    BY <1>2
  <2>4. h \notin overflow /\ \A y \in Busy : job[y] # h
    BY <2>2, <2>3
  <2>5. overflow' \cap Range(queue') = {}
    BY <1>2, <1>3, <2>2
  <2>6. \A y \in Busy' : job'[y] \notin Range(queue') \cup overflow'
    <3>1. Range(queue') \cup overflow' \subseteq Range(queue) \cup overflow
      BY <1>2, <1>3
    <3>2. h \notin Range(queue') \cup overflow'
      BY <1>2, <1>3, <2>4
    <3> QED
      BY <1>2, <2>2, <3>1, <3>2
  <2>7. \A y, z \in Busy' : job'[y] = job'[z] => y = z
    BY <1>2, <2>2, <2>4
  <2> QED
    BY <1>2, <2>1, <2>5, <2>6, <2>7 DEF OneOwner
<1>10. AnsweredInv'
  BY <1>2, <1>3, <1>4 DEF QueueInv, AnsweredInv
<1>11. PendingCountsHeld'
  BY <1>2, <1>3 DEF QueueInv, PendingCountsHeld, OfKey
<1>12. CallInv'
  BY <1>2, <1>3, <1>4 DEF QueueInv, CallInv, OfKey
<1> QED
  BY <1>1, <1>7, <1>8, <1>9, <1>10, <1>11, <1>12 DEF QueueInv

\* An attempt, whatever its outcome, keeps its task and leaves the lock in order.
LEMMA AttemptKeepsLock ==
  ASSUME QueueInv, NEW x \in Workers, OwnsLock(x), Answer(x) \/ BackOff(x), UNCHANGED job
  PROVE  /\ x \in Busy /\ job[x] \in Writes /\ Busy' = Busy /\ LockInv'
         /\ \A y \in Busy : at'[y] = "answered" => y = x \/ at[y] = "answered"
         /\ BackOff(x) => at'[x] # "answered"
<1> DEFINE k == KeyOf[job[x]]
<1>1. x \in Busy /\ at[x] = "turn"
  BY DEF OwnsLock, Busy
<1>2. /\ k \in Keys /\ job[x] \in Writes
      /\ line[k] \in Seq(Workers) /\ line[k] # <<>> /\ Head(line[k]) = x
      /\ Range(line[k]) = {x} \cup Range(Tail(line[k]))
  BY <1>1, OwnerHeadsLine DEF QueueInv
<1>3. /\ \A y \in Workers : y # x => at'[y] = at[y]
      /\ Answer(x) => at'[x] = "answered" /\ line' = line
      /\ BackOff(x) => /\ at'[x] = "retry" /\ line'[k] = Tail(line[k])
                       /\ \A c \in Keys : c # k => line'[c] = line[c]
  BY <1>2 DEF Answer, BackOff, QueueInv, TypeOK
<1>4. Busy' = Busy
  BY <1>1, <1>3 DEF Busy
<1>5. \A y \in Busy : /\ job[y] \in Writes /\ KeyOf[job[y]] \in Keys
                      /\ at[y] # "retry" => y \in Range(line[KeyOf[job[y]]])
                      /\ at[y] = "answered" => Head(line[KeyOf[job[y]]]) = y
  BY PersistenceAssumption DEF QueueInv, LockInv
<1>6. ASSUME NEW y \in Busy
      PROVE  /\ job'[y] \in Writes
             /\ at'[y] # "retry" => y \in Range(line'[KeyOf[job'[y]]])
             /\ at'[y] = "answered" => Head(line'[KeyOf[job'[y]]]) = y
  <2>1. job'[y] = job[y] /\ y \in Workers
    BY DEF Busy
  <2>2. CASE Answer(x)
    <3>1. CASE y = x
      BY <1>1, <1>2, <1>3, <1>5, <2>1, <2>2, <3>1
    <3>2. CASE y # x
      BY <1>3, <1>5, <2>1, <2>2, <3>2
    <3> QED
      BY <3>1, <3>2
  <2>3. CASE BackOff(x)
    <3>1. CASE y = x
      BY <1>2, <1>3, <2>1, <2>3, <3>1
    <3>2. CASE y # x /\ KeyOf[job[y]] = k
      BY <1>2, <1>3, <1>5, <2>1, <2>3, <3>2
    <3>3. CASE KeyOf[job[y]] # k
      BY <1>3, <1>5, <2>1, <2>3, <3>3
    <3> QED
      BY <3>1, <3>2, <3>3
  <2> QED
    BY <2>2, <2>3
<1>7. LockInv'
  BY <1>4, <1>6 DEF LockInv
<1>8. \A y \in Busy : at'[y] = "answered" => y = x \/ at[y] = "answered"
  BY <1>3 DEF Busy
<1> QED
  BY <1>1, <1>2, <1>3, <1>4, <1>7, <1>8

\* A commit adds its task to the rows, if it was not there.
LEMMA CommitAddsRow ==
  ASSUME TypeOK, NEW w \in Writes, ledger' = Committed(w)
  PROVE  rows' = rows \cup {w}
<1> DEFINE k == KeyOf[w]
<1>1. k \in Keys /\ ledger[k] \in Seq(Writes)
  BY PersistenceAssumption DEF TypeOK
<1>2. CASE ledger' = ledger /\ w \in Range(ledger[k])
  BY <1>1, <1>2 DEF rows
<1>3. CASE ledger' = [ledger EXCEPT ![k] = Append(ledger[k], w)]
  <2>1. Range(ledger'[k]) = Range(ledger[k]) \cup {w}
    BY <1>1, <1>3, RangeAppend DEF TypeOK
  <2>2. \A c \in Keys : c # k => ledger'[c] = ledger[c]
    BY <1>3 DEF TypeOK
  <2> QED
    BY <1>1, <2>1, <2>2 DEF rows
<1> QED
  BY <1>2, <1>3 DEF Committed

\* Commit, refusal by a terminal call, the end of a plain task and failure.
LEMMA AttemptKeepsQueueInv ==
  ASSUME QueueInv, NEW x \in Workers, Commit(x) \/ Decline(x) \/ RunPlain(x) \/ Fail(x)
  PROVE  QueueInv'
<1> DEFINE w == job[x]
<1>1. TypeOK'
  BY WorkerTypeOK DEF Worker, QueueInv
<1>2. OwnsLock(x) /\ (Answer(x) \/ BackOff(x)) /\ untouched /\ UNCHANGED <<pending, drained>>
  BY DEF Commit, Decline, RunPlain, Fail
<1>3. /\ UNCHANGED <<journal, active, queue, overflow, job, pending, drained, status, session,
                     accepted, before>>
      /\ Accepted' = Accepted
  BY <1>2 DEF untouched, Accepted
<1>4. /\ x \in Busy /\ w \in Writes /\ Busy' = Busy /\ LockInv'
      /\ \A y \in Busy : at'[y] = "answered" => y = x \/ at[y] = "answered"
      /\ BackOff(x) => at'[x] # "answered"
  BY <1>2, <1>3, AttemptKeepsLock
<1>5. Held' = Held /\ w \in Held
  BY <1>3, <1>4 DEF Held
<1>6. \/ Commit(x) /\ rows' = rows \cup {w} /\ declined' = declined
      \/ Decline(x) /\ rows' = rows /\ declined' = declined \cup {w}
      \/ (RunPlain(x) \/ Fail(x)) /\ rows' = rows /\ declined' = declined
  <2>1. ASSUME Commit(x) PROVE rows' = rows \cup {w} /\ declined' = declined
    BY <1>4, <2>1, CommitAddsRow DEF Commit, QueueInv
  <2>2. ASSUME Decline(x) PROVE rows' = rows /\ declined' = declined \cup {w}
    BY <2>2 DEF Decline, rows
  <2>3. ASSUME RunPlain(x) \/ Fail(x) PROVE rows' = rows /\ declined' = declined
    BY <2>3 DEF RunPlain, Fail, rows
  <2> QED
    BY <2>1, <2>2, <2>3
<1>7. rows \cup declined \subseteq rows' \cup declined' /\ rows \subseteq rows'
  BY <1>6
<1>8. JournalInv' /\ NothingLost'
  BY <1>3, <1>5, <1>7 DEF QueueInv, JournalInv, NothingLost
<1>9. OneOwner'
  BY <1>3, <1>4, <1>5 DEF QueueInv, OneOwner
<1>10. PendingCountsHeld'
  BY <1>3, <1>5 DEF QueueInv, PendingCountsHeld, OfKey
<1>11. AnsweredInv'
  <2>1. at'[x] = "answered" /\ w \in Durable => w \in rows' \cup declined'
    <3>1. RunPlain(x) => w \notin Durable
      BY DEF RunPlain
    <3>2. Fail(x) => BackOff(x)
      BY DEF Fail
    <3> QED
      BY <1>4, <1>6, <3>1, <3>2
  <2> QED
    BY <1>3, <1>4, <1>7, <2>1 DEF QueueInv, AnsweredInv
<1>12. CallInv'
  <2>1. \/ declined' = declined
        \/ w \in Durable /\ status[KeyOf[w]] # "open" /\ declined' = declined \cup {w}
    <3>1. Decline(x) => w \in Durable /\ status[KeyOf[w]] # "open"
      BY DEF Decline
    <3> QED
      BY <1>6, <3>1
  <2>2. declined' \subseteq Durable
    BY <2>1 DEF QueueInv, CallInv
  <2>3. \A k \in Keys : status[k] = "open" => OfKey(declined, k)' = {}
    BY <2>1 DEF QueueInv, CallInv, OfKey
  <2>4. \A k \in Keys : /\ OfKey(Accepted, k)' = OfKey(Accepted, k)
                        /\ OfKey(Accepted \cap Durable, k)' = OfKey(Accepted \cap Durable, k)
    BY <1>3 DEF OfKey
  <2> QED
    BY <1>3, <1>5, <1>7, <2>2, <2>3, <2>4 DEF QueueInv, CallInv
<1> QED
  BY <1>1, <1>4, <1>8, <1>9, <1>10, <1>11, <1>12 DEF QueueInv

\* A retry asks for the lock again.
LEMMA RetryKeepsQueueInv ==
  ASSUME QueueInv, NEW x \in Workers, Retry(x)
  PROVE  QueueInv'
<1> DEFINE k == KeyOf[job[x]]
<1>1. TypeOK'
  BY WorkerTypeOK DEF Worker, QueueInv
<1>2. x \in Busy
  BY DEF Retry, Busy
<1>3. UNCHANGED <<journal, active, queue, overflow, job, pending, drained, status, session,
                  accepted, before, declined, ledger>>
  BY DEF Retry, untouched
<1>4. k \in Keys /\ line[k] \in Seq(Workers)
  BY <1>2, PersistenceAssumption DEF QueueInv, LockInv, TypeOK
<1>5. /\ at'[x] = "turn" /\ \A y \in Workers : y # x => at'[y] = at[y]
      /\ line'[k] = Append(line[k], x)
      /\ \A c \in Keys : c # k => line'[c] = line[c]
  BY <1>4 DEF Retry, QueueInv, TypeOK
<1>6. Busy' = Busy
  BY <1>2, <1>5 DEF Busy
<1>7. Held' = Held /\ Accepted' = Accepted /\ rows' = rows
  BY <1>3, <1>6 DEF Held, Accepted, rows
<1>8. LockInv'
  <2>1. Range(line'[k]) = Range(line[k]) \cup {x}
    BY <1>4, <1>5, RangeAppend
  <2>2. \A y \in Busy : /\ job[y] \in Writes /\ KeyOf[job[y]] \in Keys /\ y \in Workers
                        /\ at[y] # "retry" => y \in Range(line[KeyOf[job[y]]])
                        /\ at[y] = "answered" => Head(line[KeyOf[job[y]]]) = y
    BY PersistenceAssumption DEF QueueInv, LockInv, Busy
  <2>3. line[k] # <<>> => Head(line'[k]) = Head(line[k])
    BY <1>4, <1>5
  <2>4. ASSUME NEW y \in Busy, y # x
        PROVE  /\ at'[y] # "retry" => y \in Range(line'[KeyOf[job[y]]])
               /\ at'[y] = "answered" => Head(line'[KeyOf[job[y]]]) = y
    <3>1. at[y] = "answered" => line[KeyOf[job[y]]] # <<>>
      BY <2>2 DEF Range
    <3>2. CASE KeyOf[job[y]] = k
      BY <1>5, <2>1, <2>2, <2>3, <2>4, <3>1, <3>2
    <3>3. CASE KeyOf[job[y]] # k
      BY <1>5, <2>2, <2>4, <3>3
    <3> QED
      BY <3>2, <3>3
  <2>5. x \in Range(line'[k]) /\ at'[x] # "answered"
    BY <1>5, <2>1
  <2> QED
    BY <1>3, <1>6, <2>2, <2>4, <2>5 DEF LockInv
<1>9. JournalInv' /\ NothingLost' /\ OneOwner'
  BY <1>3, <1>6, <1>7 DEF QueueInv, JournalInv, NothingLost, OneOwner
<1>10. PendingCountsHeld' /\ CallInv'
  BY <1>3, <1>7 DEF QueueInv, PendingCountsHeld, CallInv, OfKey
<1>11. AnsweredInv'
  BY <1>3, <1>5, <1>6, <1>7 DEF QueueInv, AnsweredInv, Busy
<1> QED
  BY <1>1, <1>8, <1>9, <1>10, <1>11 DEF QueueInv

\* The clean-up after an answer.

\* The finished task is no longer held, and it was held nowhere else.
LEMMA FinishReleases ==
  ASSUME QueueInv, NEW x \in Workers, Finish(x)
  PROVE  /\ x \in Busy /\ at[x] = "answered" /\ job[x] \in Writes
         /\ Busy' = Busy \ {x} /\ Held' = Held \ {job[x]} /\ job[x] \in Held
         /\ \A y \in Busy' : y \in Busy /\ y # x /\ at'[y] = at[y] /\ job'[y] = job[y]
<1>1. x \in Busy /\ at[x] = "answered"
  BY DEF Finish, Busy
<1>2. job[x] \in Writes
  BY <1>1 DEF QueueInv, LockInv
<1>3. at'[x] = "get" /\ \A y \in Workers : y # x => at'[y] = at[y] /\ job'[y] = job[y]
  BY DEF Finish, QueueInv, TypeOK
<1>4. Busy' = Busy \ {x}
  BY <1>3 DEF Busy
<1>5. /\ job[x] \notin Range(queue) \cup overflow
      /\ \A y \in Busy : y # x => job[y] # job[x]
  BY <1>1 DEF QueueInv, OneOwner
<1>6. \A y \in Busy' : y \in Busy /\ y # x /\ at'[y] = at[y] /\ job'[y] = job[y]
  BY <1>3, <1>4 DEF Busy
<1>7. {job'[y] : y \in Busy'} = {job[y] : y \in Busy} \ {job[x]}
  BY <1>1, <1>4, <1>5, <1>6
<1>8. queue' = queue /\ overflow' = overflow
  BY DEF Finish
<1>9. Held' = Held \ {job[x]} /\ job[x] \in Held
  BY <1>1, <1>5, <1>7, <1>8 DEF Held
<1> QED
  BY <1>1, <1>2, <1>4, <1>6, <1>9

\* Counting one task of one call less; the last one leaves none held.
LEMMA CountOneLess ==
  ASSUME QueueInv, NEW w \in Held, w \in Writes, Held' = Held \ {w},
         pending' = [pending EXCEPT ![KeyOf[w]] = @ - 1],
         drained' = [drained EXCEPT ![KeyOf[w]] = pending[KeyOf[w]] = 1]
  PROVE  /\ PendingCountsHeld'
         /\ pending[KeyOf[w]] = 1 => OfKey(Held', KeyOf[w]) = {}
<1> DEFINE c == KeyOf[w]
<1>1. c \in Keys
  BY PersistenceAssumption
<1>2. \A y \in Busy : job[y] \in Writes
  BY DEF QueueInv, LockInv
<1>3. \A k \in Keys : /\ pending[k] = Cardinality(OfKey(Held, k)) /\ pending[k] \in Nat
                      /\ drained[k] = (pending[k] = 0)
                      /\ IsFiniteSet(OfKey(Held, k))
  BY <1>2, HeldFinite DEF QueueInv, TypeOK, PendingCountsHeld
<1>4. OfKey(Held', c) = OfKey(Held, c) \ {w} /\ w \in OfKey(Held, c)
  BY DEF OfKey
<1>5. Cardinality(OfKey(Held', c)) = pending[c] - 1 /\ IsFiniteSet(OfKey(Held', c))
  <2>1. /\ IsFiniteSet(OfKey(Held, c)) /\ Cardinality(OfKey(Held, c)) = pending[c]
        /\ w \in OfKey(Held, c) /\ OfKey(Held', c) = OfKey(Held, c) \ {w}
    BY <1>1, <1>3, <1>4
  <2> QED
    BY <2>1, FS_RemoveElement
<1>6. pending[c] # 0
  BY <1>1, <1>3, <1>4, FS_EmptySet
<1>7. pending'[c] = pending[c] - 1 /\ drained'[c] = (pending[c] = 1)
  BY <1>1 DEF QueueInv, TypeOK
<1>8. pending'[c] = Cardinality(OfKey(Held', c)) /\ drained'[c] = (pending'[c] = 0)
  <2>1. pending'[c] = Cardinality(OfKey(Held', c))
    BY <1>5, <1>7
  <2>2. pending[c] = 1 <=> pending'[c] = 0
    BY <1>1, <1>3, <1>7
  <2> QED
    BY <1>7, <2>1, <2>2, Zenon
<1>9. ASSUME NEW k \in Keys, k # c
      PROVE  pending'[k] = Cardinality(OfKey(Held', k)) /\ drained'[k] = (pending'[k] = 0)
  <2>1. OfKey(Held', k) = OfKey(Held, k)
    BY <1>9 DEF OfKey
  <2>2. pending'[k] = pending[k] /\ drained'[k] = drained[k]
    BY <1>1, <1>9 DEF QueueInv, TypeOK
  <2> QED
    BY <1>3, <2>1, <2>2
<1>10. PendingCountsHeld'
  <2>1. \A k \in Keys : OfKey(Held, k)' = OfKey(Held', k)
    BY DEF OfKey
  <2>2. \A k \in Keys : pending'[k] = Cardinality(OfKey(Held', k))
                        /\ drained'[k] = (pending'[k] = 0)
    BY <1>8, <1>9, Zenon
  <2> QED
    BY <2>1, <2>2 DEF PendingCountsHeld
<1>11. pending[c] = 1 => OfKey(Held', c) = {}
  <2>1. pending[c] = 1 => Cardinality(OfKey(Held', c)) = 0
    BY <1>5
  <2> QED
    BY <1>5, <2>1, FS_EmptySet
<1> QED
  BY <1>10, <1>11

LEMMA FinishKeepsQueueInv ==
  ASSUME QueueInv, NEW x \in Workers, Finish(x)
  PROVE  QueueInv'
<1> DEFINE w == job[x]
           c == KeyOf[w]
<1>1. TypeOK'
  BY WorkerTypeOK DEF Worker, QueueInv
<1>2. /\ x \in Busy /\ at[x] = "answered" /\ w \in Writes
      /\ Busy' = Busy \ {x} /\ Held' = Held \ {w} /\ w \in Held
      /\ \A y \in Busy' : y \in Busy /\ y # x /\ at'[y] = at[y] /\ job'[y] = job[y]
  BY FinishReleases
<1>3. /\ UNCHANGED <<queue, overflow, status, ledger, accepted, declined, before>>
      /\ Accepted' = Accepted /\ rows' = rows
      /\ journal' = journal \ {w} /\ active' = active \ {w}
  BY DEF Finish, history, Accepted, rows
<1>4. PendingCountsHeld' /\ (pending[c] = 1 => OfKey(Held', c) = {})
  BY <1>2, CountOneLess DEF Finish
<1>5. w \in Durable => w \in rows \cup declined
  BY <1>2 DEF QueueInv, AnsweredInv
<1>6. LockInv'
  <2>1. /\ c \in Keys /\ Head(line[c]) = x
        /\ Range(line[c]) = {x} \cup Range(Tail(line[c]))
    BY <1>2, OwnerHeadsLine DEF QueueInv
  <2>2. /\ line'[c] = Tail(line[c])
        /\ \A k \in Keys : k # c => line'[k] = line[k]
    BY <2>1 DEF Finish, QueueInv, TypeOK
  <2>3. \A y \in Busy : /\ job[y] \in Writes /\ KeyOf[job[y]] \in Keys
                        /\ at[y] # "retry" => y \in Range(line[KeyOf[job[y]]])
                        /\ at[y] = "answered" => Head(line[KeyOf[job[y]]]) = y
    BY PersistenceAssumption DEF QueueInv, LockInv
  <2>4. ASSUME NEW y \in Busy, y # x
        PROVE  /\ at[y] # "retry" => y \in Range(line'[KeyOf[job[y]]])
               /\ at[y] = "answered" => Head(line'[KeyOf[job[y]]]) = y
    <3>1. CASE KeyOf[job[y]] = c
      BY <2>1, <2>2, <2>3, <2>4, <3>1
    <3>2. CASE KeyOf[job[y]] # c
      BY <2>2, <2>3, <3>2
    <3> QED
      BY <3>1, <3>2
  <2> QED
    BY <1>2, <2>3, <2>4 DEF LockInv
<1>7. JournalInv'
  <2>1. active' \subseteq journal' /\ journal' \subseteq Durable \cap Accepted
    BY <1>3 DEF QueueInv, JournalInv
  <2> QED
    BY <1>2, <1>3, <2>1 DEF QueueInv, JournalInv
<1>8. NothingLost'
  BY <1>3, <1>5 DEF QueueInv, NothingLost
<1>9. OneOwner'
  BY <1>2, <1>3 DEF QueueInv, OneOwner
<1>10. AnsweredInv'
  BY <1>2, <1>3 DEF QueueInv, AnsweredInv
<1>11. CallInv'
  <2>1. session' = [session EXCEPT ![c] = IF @ = "waiting" /\ pending[c] = 1
                                          THEN "drained" ELSE @]
    BY DEF Finish
  <2>2. \A k \in Keys :
          \/ session'[k] = session[k]
          \/ k = c /\ session[k] = "waiting" /\ session'[k] = "drained" /\ pending[c] = 1
    BY <2>1 DEF QueueInv, TypeOK
  <2>3. \A k \in Keys : session[k] \in {"live", "waiting"} /\ w \in OfKey(Accepted \cap Durable, k)
          => w \in rows
    BY <1>5 DEF QueueInv, CallInv, OfKey
  <2>4. \A k \in Keys : session[k] \in {"live", "waiting"}
          => OfKey(Accepted \cap Durable, k) \subseteq rows \cup Held'
    <3>1. \A k \in Keys : session[k] \in {"live", "waiting"}
            => OfKey(Accepted \cap Durable, k) \subseteq rows \cup Held
      BY DEF QueueInv, CallInv
    <3> QED
      BY <1>2, <2>3, <3>1
  <2>5. session[c] = "waiting" /\ pending[c] = 1 => before[c] \cap Durable \subseteq rows
    <3>1. c \in Keys
      BY <1>2, PersistenceAssumption
    <3>2. before[c] \subseteq OfKey(Accepted, c)
      BY <3>1 DEF QueueInv, CallInv
    <3> QED
      BY <1>4, <2>4, <3>1, <3>2 DEF OfKey
  <2>6. \A k \in Keys : /\ OfKey(Accepted, k)' = OfKey(Accepted, k)
                        /\ OfKey(Accepted \cap Durable, k)' = OfKey(Accepted \cap Durable, k)
                        /\ OfKey(declined, k)' = OfKey(declined, k)
    BY <1>3 DEF OfKey
  <2> QED
    BY <1>3, <2>2, <2>4, <2>5, <2>6 DEF QueueInv, CallInv
<1> QED
  BY <1>1, <1>4, <1>6, <1>7, <1>8, <1>9, <1>10, <1>11 DEF QueueInv

---------------------------------------------------------------------------
\* The theorems.

LEMMA InitQueueInv == Init => QueueInv
<1> SUFFICES ASSUME Init PROVE QueueInv
  OBVIOUS
<1>1. TypeOK
  BY InitTypeOK
<1>2. Busy = {} /\ Held = {} /\ Accepted = {}
  BY DEF Init, Busy, Held, Accepted, Range
<1>3. LockInv /\ JournalInv /\ AnsweredInv /\ NothingLost
  BY <1>2 DEF Init, LockInv, JournalInv, AnsweredInv, NothingLost
<1>4. OneOwner
  BY <1>2 DEF Init, OneOwner, IsInjective, Range
<1>5. PendingCountsHeld
  <2>1. \A k \in Keys : OfKey(Held, k) = {}
    BY <1>2 DEF OfKey
  <2> QED
    BY <2>1, FS_EmptySet DEF Init, PendingCountsHeld
<1>6. CallInv
  BY <1>2 DEF Init, CallInv, OfKey
<1> QED
  BY <1>1, <1>3, <1>4, <1>5, <1>6 DEF QueueInv

LEMMA NextKeepsQueueInv == QueueInv /\ [Next]_vars => QueueInv'
<1> SUFFICES ASSUME QueueInv, [Next]_vars PROVE QueueInv'
  OBVIOUS
<1>1. ASSUME NEW w \in Writes, enqueue(w) PROVE QueueInv'
  BY <1>1, EnqueueKeepsQueueInv
<1>2. ASSUME PutOverflow PROVE QueueInv'
  BY <1>2, OverflowKeepsQueueInv
<1>3. ASSUME ReplayJournals PROVE QueueInv'
  BY <1>3, ReplayKeepsQueueInv
<1>4. ASSUME NEW x \in Workers, Worker(x) PROVE QueueInv'
  BY <1>4, GetKeepsQueueInv, AttemptKeepsQueueInv, RetryKeepsQueueInv, FinishKeepsQueueInv
  DEF Worker
<1>5. ASSUME \/ \E k \in Keys : wait_for_key(k) \/ finalize_call(k) \/ abandon(k)
             \/ Crash \/ start \/ stop \/ Join \/ Stopped \/ Outage \/ Recovery
      PROVE  QueueInv'
  BY <1>5, OuterKeepsQueueInv
<1>6. ASSUME UNCHANGED vars PROVE QueueInv'
  <2>1. /\ UNCHANGED <<journal, memory, ledger, accepted, declined>>
        /\ UNCHANGED <<status, session, before>>
    BY <1>6 DEF vars, history
  <2>2. TypeOK'
    BY <1>6 DEF QueueInv, TypeOK, vars, memory, history, bounds
  <2>3. QueuePart'
    BY <2>1, QueuePartUntouched DEF QueueInv, QueuePart
  <2>4. Held' = Held /\ Accepted' = Accepted /\ rows' = rows
    BY <2>1 DEF memory, Busy, Held, Accepted, rows
  <2>5. CallInv'
    BY <2>1, <2>4 DEF QueueInv, CallInv, OfKey
  <2> QED
    BY <2>2, <2>3, <2>5 DEF QueueInv, QueuePart
<1> QED
  BY <1>1, <1>2, <1>3, <1>4, <1>5, <1>6 DEF Next

\* The strengthening from which the rest follows: locks, journal, counts and calls
\* agree at every step of the queue, the workers and teardown (task_queue.py).
THEOREM QueueAlwaysSound == Spec => []QueueInv
<1> QED
  BY InitQueueInv, NextKeepsQueueInv, PTL DEF Spec

\* Every variable keeps its type: in particular the counts of
\* _mark_persistence_finished never drop below zero.
THEOREM QueueTypeCorrect == Spec => []TypeOK
<1>1. QueueInv => TypeOK
  BY DEF QueueInv
<1> QED
  BY <1>1, QueueAlwaysSound, PTL

\* No accepted call record that is undecided is without its journal file, through
\* retries, overflow, replay, crash and shutdown (_write_journal, _worker).
THEOREM AcceptedIsJournaled == Spec => []NothingLost
<1>1. QueueInv => NothingLost
  BY DEF QueueInv
<1> QED
  BY <1>1, QueueAlwaysSound, PTL

\* A task is in one place, so a replay never runs beside the original
\* (_journal_active).
THEOREM OneOwnerOnly == Spec => []OneOwner
<1>1. QueueInv => OneOwner
  BY DEF QueueInv
<1> QED
  BY <1>1, QueueAlwaysSound, PTL

\* The count a drain waits for is the number of tasks the process still has
\* (_mark_persistence_queued, _mark_persistence_finished).
THEOREM CountsAreExact == Spec => []PendingCountsHeld
<1>1. QueueInv => PendingCountsHeld
  BY DEF QueueInv
<1> QED
  BY <1>1, QueueAlwaysSound, PTL

\* Nothing accepted before the drain of a finalized call was refused as too late
\* (main.py's teardown, wait_for_key, finalize_call).
THEOREM DrainIsEnough == Spec => []DrainProtectsEarlier
<1>1. QueueInv => DrainProtectsEarlier
  BY DEF QueueInv, CallInv, DrainProtectsEarlier
<1> QED
  BY <1>1, QueueAlwaysSound, PTL

---------------------------------------------------------------------------
\* The queue implements DurableLedger.

\* A commit is a write of the abstract ledger, or finds its record there.
LEMMA CommitIsWrite ==
  ASSUME QueueInv, NEW x \in Workers, Commit(x)
  PROVE  [Ledger!Next]_(Ledger!vars)
<1> DEFINE w == job[x]
           k == KeyOf[w]
<1>1. x \in Busy
  BY DEF Commit, OwnsLock, Busy
<1>2. w \in Writes /\ k \in Keys /\ w \in Durable /\ status[k] = "open"
  BY <1>1, PersistenceAssumption DEF QueueInv, LockInv, Commit
<1>3. UNCHANGED <<accepted, declined, status>>
  BY DEF Commit, untouched
<1>4. w \notin declined
  BY <1>2 DEF QueueInv, CallInv, OfKey
<1>5. rows' = rows \cup {w}
  BY <1>2, CommitAddsRow DEF Commit, QueueInv
<1>6. (declined \ rows)' = declined \ rows /\ (Accepted \cap Durable)' = Accepted \cap Durable
      /\ {c \in Keys : status[c] # "open"}' = {c \in Keys : status[c] # "open"}
  BY <1>3, <1>4, <1>5 DEF Accepted
<1>7. CASE ledger' = ledger
  BY <1>6, <1>7 DEF Ledger!vars
<1>8. CASE ledger' # ledger
  <2>1. /\ w \in Overwrites \/ w \notin Range(ledger[k])
        /\ ledger' = [ledger EXCEPT ![k] = Append(ledger[k], w)]
    BY <1>8 DEF Commit, Committed
  <2>2. w \in Accepted
    BY <1>1 DEF QueueInv, JournalInv, Held
  <2>3. Ledger!Write(w)
    BY <1>2, <1>4, <1>6, <2>1, <2>2 DEF Ledger!Write, Ledger!Written, Ledger!Range, Range
  <2> QED
    BY <1>2, <2>3 DEF Ledger!Next
<1> QED
  BY <1>7, <1>8

\* A refusal gives its record up, unless it is written or given up already.
LEMMA DeclineIsDrop ==
  ASSUME QueueInv, NEW x \in Workers, Decline(x)
  PROVE  [Ledger!Next]_(Ledger!vars)
<1> DEFINE w == job[x]
           k == KeyOf[w]
<1>1. x \in Busy
  BY DEF Decline, OwnsLock, Busy
<1>2. w \in Durable /\ k \in Keys /\ status[k] # "open"
  BY <1>1, PersistenceAssumption DEF QueueInv, LockInv, Decline
<1>3. UNCHANGED <<accepted, status, ledger>> /\ declined' = declined \cup {w}
  BY DEF Decline, untouched
<1>4. rows' = rows /\ (Accepted \cap Durable)' = Accepted \cap Durable
      /\ {c \in Keys : status[c] # "open"}' = {c \in Keys : status[c] # "open"}
  BY <1>3 DEF Accepted, rows
<1>5. CASE w \in rows \cup declined
  <2>1. (declined \ rows)' = declined \ rows
    BY <1>3, <1>4, <1>5
  <2> QED
    BY <1>3, <1>4, <2>1 DEF Ledger!vars
<1>6. CASE w \notin rows \cup declined
  <2>1. (declined \ rows)' = (declined \ rows) \cup {w}
    BY <1>3, <1>4, <1>6
  <2>2. w \in Accepted
    BY <1>1 DEF QueueInv, JournalInv, Held
  <2>3. w \notin Range(ledger[k])
    BY <1>2, <1>6 DEF rows
  <2>4. Ledger!Drop(w)
    BY <1>2, <1>3, <1>4, <1>6, <2>1, <2>2, <2>3 DEF Ledger!Drop, Ledger!Written, Ledger!Range, Range
  <2> QED
    BY <1>2, <2>4 DEF Ledger!Next
<1> QED
  BY <1>5, <1>6

\* The end of a call, orderly or by the watchdog.
LEMMA TerminalIsEnd ==
  ASSUME QueueInv, NEW k \in Keys, finalize_call(k) \/ abandon(k)
  PROVE  [Ledger!Next]_(Ledger!vars)
<1>1. UNCHANGED <<ledger, accepted, declined>>
  BY DEF finalize_call, abandon, history
<1>2. (declined \ rows)' = declined \ rows /\ (Accepted \cap Durable)' = Accepted \cap Durable
  BY <1>1 DEF rows, Accepted
<1>3. CASE status' = status
  BY <1>1, <1>2, <1>3 DEF Ledger!vars
<1>4. CASE status' # status
  <2>1. /\ status[k] = "open" /\ status'[k] # "open"
        /\ \A c \in Keys : c # k => status'[c] = status[c]
    BY <1>4 DEF finalize_call, abandon, QueueInv, TypeOK
  <2>2. {c \in Keys : status[c] # "open"}' = {c \in Keys : status[c] # "open"} \cup {k}
    BY <2>1
  <2>3. Ledger!End(k)
    BY <1>1, <1>2, <2>1, <2>2 DEF Ledger!End
  <2> QED
    BY <2>3 DEF Ledger!Next
<1> QED
  BY <1>3, <1>4

\* An accepted durable task is accepted by the ledger; the rest is invisible there.
LEMMA EnqueueIsAccept ==
  ASSUME QueueInv, NEW w \in Writes, enqueue(w)
  PROVE  [Ledger!Next]_(Ledger!vars)
<1>1. UNCHANGED <<ledger, declined, status>>
  BY DEF enqueue
<1>2. (declined \ rows)' = declined \ rows
      /\ {c \in Keys : status[c] # "open"}' = {c \in Keys : status[c] # "open"}
  BY <1>1 DEF rows
<1>3. CASE Take(w) /\ w \in Durable
  <2>1. w \notin Accepted
    BY DEF enqueue
  <2>2. Accepted' = Accepted \cup {w}
    BY <1>3, TakeHolds
  <2>3. (Accepted \cap Durable)' = (Accepted \cap Durable) \cup {w}
    BY <1>3, <2>2
  <2>4. Ledger!Accept(w)
    BY <1>1, <1>2, <2>1, <2>3 DEF Ledger!Accept
  <2> QED
    BY <1>3, <2>4 DEF Ledger!Next
<1>4. CASE Take(w) /\ w \notin Durable
  <2>1. Accepted' = Accepted \cup {w}
    BY <1>4, TakeHolds
  <2>2. (Accepted \cap Durable)' = Accepted \cap Durable
    BY <1>4, <2>1
  <2> QED
    BY <1>1, <1>2, <2>2 DEF Ledger!vars
<1>5. CASE Refuse(w)
  <2>1. (Accepted \cap Durable)' = Accepted \cap Durable
    BY <1>5 DEF Refuse, Accepted
  <2> QED
    BY <1>1, <1>2, <2>1 DEF Ledger!vars
<1> QED
  BY <1>3, <1>4, <1>5 DEF enqueue

LEMMA NextIsLedgerNext == QueueInv /\ [Next]_vars => [Ledger!Next]_(Ledger!vars)
<1> SUFFICES ASSUME QueueInv, [Next]_vars PROVE [Ledger!Next]_(Ledger!vars)
  OBVIOUS
<1>1. ASSUME NEW w \in Writes, enqueue(w) PROVE [Ledger!Next]_(Ledger!vars)
  BY <1>1, EnqueueIsAccept
<1>2. ASSUME NEW x \in Workers, Commit(x) \/ Decline(x) PROVE [Ledger!Next]_(Ledger!vars)
  BY <1>2, CommitIsWrite, DeclineIsDrop
<1>3. ASSUME NEW k \in Keys, finalize_call(k) \/ abandon(k) PROVE [Ledger!Next]_(Ledger!vars)
  BY <1>3, TerminalIsEnd
<1>4. ASSUME UNCHANGED <<ledger, accepted, declined, status>>
      PROVE  [Ledger!Next]_(Ledger!vars)
  <2>1. (declined \ rows)' = declined \ rows
        /\ (Accepted \cap Durable)' = Accepted \cap Durable
        /\ {c \in Keys : status[c] # "open"}' = {c \in Keys : status[c] # "open"}
    BY <1>4 DEF rows, Accepted
  <2> QED
    BY <1>4, <2>1 DEF Ledger!vars
<1>5. ASSUME \/ PutOverflow \/ ReplayJournals
             \/ \E x \in Workers : Get(x) \/ RunPlain(x) \/ Fail(x) \/ Retry(x) \/ Finish(x)
             \/ \E k \in Keys : wait_for_key(k)
      PROVE  UNCHANGED <<ledger, accepted, declined, status>>
  BY <1>5
  DEF PutOverflow, ReplayJournals, Get, RunPlain, Fail, Retry, Finish, wait_for_key,
      untouched, history
<1>6. ASSUME Crash \/ start \/ stop \/ Join \/ Stopped \/ Outage \/ Recovery \/ UNCHANGED vars
      PROVE  UNCHANGED <<ledger, accepted, declined, status>>
  BY <1>6 DEF Crash, start, stop, Join, Stopped, Outage, Recovery, vars, history
<1> QED
  BY <1>1, <1>2, <1>3, <1>4, <1>5, <1>6 DEF Next, Worker

\* Queue, workers, journal, crashes and teardown together keep the promise of
\* DurableLedger: a record is written at most once and never into an ended call,
\* and is given up only after its call has ended.
THEOREM QueueImplementsLedger == Spec => QueueIsDurableLedger
<1>1. Init => Ledger!Init
  <2> SUFFICES ASSUME Init PROVE Ledger!Init
    OBVIOUS
  <2>1. Accepted = {} /\ declined = {} /\ {k \in Keys : status[k] # "open"} = {}
    BY DEF Init, Accepted, Range
  <2>2. ledger = [k \in Keys |-> <<>>]
    BY DEF Init
  <2> QED
    BY <2>1, <2>2 DEF Ledger!Init
<1> QED
  BY <1>1, NextIsLedgerNext, QueueAlwaysSound, PTL DEF Spec, QueueIsDurableLedger, Ledger!Spec
====
