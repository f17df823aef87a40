---- MODULE CallerMemory ----
(***************************************************************************)
(* What is remembered about a user over their calls (services/memory.py):  *)
(* every final transcript is enriched by the lane of background work,      *)
(* which classifies what the user said into facts and keeps windows of the *)
(* conversation; a new call starts with the facts, and a turn may recall   *)
(* an earlier call.  Calls are deleted, restored and purged, and the user  *)
(* deletes facts (api/memories.py).                                        *)
(***************************************************************************)
EXTENDS Naturals, Sequences, FiniteSets, SequencesExt

CONSTANTS
  MemoryCalls,       \* calls of one user
  Facts,             \* records with type, key and value
  Singles,           \* SINGLE_VALUE_KEYS
  Classifications,   \* what the model may find in a sentence: sequences of events
  Eighth,            \* messages of a window: 8 in the code
  MaxEntries,        \* bound: transcripts
  MaxDelays          \* bound: transcripts whose save is delayed

ASSUME MemoryAssumption ==
  /\ \A f \in Facts : DOMAIN f = {"type", "key", "value"}
  /\ Classifications \subseteq Seq([action : {"upsert", "deactivate"}, fact : Facts])
  /\ Eighth \in Nat \ {0} /\ MaxEntries \in Nat /\ MaxDelays \in Nat

VARIABLES
  called,    \* each call: "none", "live", "ended", "deleted", "purged"
  accepted,  \* how many transcripts the persistence lane has been given
  unsaved,   \* those of them that are neither committed nor declined: a set, as a
             \* delayed one lets others pass
  entries,   \* transcripts, in the order of their commits
  unqueued,  \* committed ones whose save has not enqueued their enrichment yet
  lane,      \* the enrichment queue
  work,      \* the job of the lane's worker
  stated,    \* what each transcript was committed as: its events
  table,     \* user_memories: each fact's status and source
  windows,   \* memory_chunks: the call and the newest transcript of each
  known,     \* the facts in each call's instruction
  recall     \* each call's recall: where it is, and what it told

memoryVars ==
  <<called, accepted, unsaved, entries, unqueued, lane, work, stated, table, windows, known,
    recall>>

\* A transcript: the number under which it was accepted, and whether its save was delayed.
Transcripts ==
  [nth : 1..MaxEntries, call : MemoryCalls, speaker : {"You", "Aura"}, late : BOOLEAN]

Entries == 1..MaxEntries
NoRow == [status |-> "none", source |-> 0]
NoWork == [pc |-> "idle", entry |-> 0, events |-> <<>>]
NoRecall == [pc |-> "none", prior |-> "none", told |-> {}]

MemoryInit ==
  /\ called = [c \in MemoryCalls |-> "none"]
  /\ accepted = 0 /\ unsaved = {}
  /\ entries = <<>> /\ unqueued = <<>> /\ lane = <<>> /\ work = NoWork
  /\ stated = [e \in Entries |-> <<>>]
  /\ table = [f \in Facts |-> NoRow] /\ windows = {}
  /\ known = [c \in MemoryCalls |-> {}]
  /\ recall = [c \in MemoryCalls |-> NoRecall]

CallOf(e) == entries[e].call
Stored(e) == called[CallOf(e)] # "purged"

---------------------------------------------------------------------------
\* _load_active_facts: active, and said in a call that has ended and is kept.
load_active_facts ==
  {f \in Facts : table[f].status = "active" /\ called[CallOf(table[f].source)] = "ended"}

\* load_session_bundle and hydrate_memory_bundle.
call_starts(c) ==
  /\ called[c] = "none" /\ called' = [called EXCEPT ![c] = "live"]
  /\ known' = [known EXCEPT ![c] = load_active_facts]
  /\ UNCHANGED <<accepted, unsaved, entries, unqueued, lane, work, stated, table, windows,
                 recall>>

memoryKept ==
  UNCHANGED <<accepted, entries, unqueued, lane, work, stated, table, windows, known, recall>>

\* finalize_call: what is saved later is declined (WRITABLE_CALL_STATUSES).
call_ends(c) ==
  /\ called[c] = "live" /\ called' = [called EXCEPT ![c] = "ended"]
  /\ unsaved' = {r \in unsaved : r.call # c}
  /\ memoryKept

\* soft_delete_call and restore_call.
call_deleted(c) ==
  /\ called[c] = "ended" /\ called' = [called EXCEPT ![c] = "deleted"]
  /\ UNCHANGED unsaved /\ memoryKept
call_restored(c) ==
  /\ called[c] = "deleted" /\ called' = [called EXCEPT ![c] = "ended"]
  /\ UNCHANGED unsaved /\ memoryKept

\* The purge deletes the call's row: its transcripts, their facts and its windows
\* go with it.
call_purged(c) ==
  /\ called[c] = "deleted" /\ called' = [called EXCEPT ![c] = "purged"]
  /\ table' = [f \in Facts |-> IF table[f].source # 0 /\ CallOf(table[f].source) = c
                               THEN NoRow ELSE table[f]]
  /\ windows' = {w \in windows : w.call # c}
  /\ UNCHANGED <<accepted, unsaved, entries, unqueued, lane, work, stated, known, recall>>

\* delete_memory and delete_all_memories.
delete_memories(fs) ==
  /\ \A f \in fs : table[f] # NoRow
  /\ table' = [f \in Facts |-> IF f \in fs THEN NoRow ELSE table[f]]
  /\ UNCHANGED <<called, accepted, unsaved, entries, unqueued, lane, work, stated, windows,
                 known, recall>>

---------------------------------------------------------------------------
\* CallTimelineProcessor enqueues the save of what was said, in the order of the call.
transcript_said(c, speaker) ==
  /\ called[c] = "live" /\ accepted < MaxEntries
  /\ accepted' = accepted + 1
  /\ unsaved' = unsaved \cup
       {[nth |-> accepted + 1, call |-> c, speaker |-> speaker, late |-> FALSE]}
  /\ UNCHANGED <<called, entries, unqueued, lane, work, stated, table, windows, known, recall>>

\* A save fails and is tried again after a sleep without the call's lock, or it was
\* spilled from a full queue, or is replayed from its journal: others pass it.
transcript_delayed(r) ==
  /\ r \in unsaved /\ ~r.late
  /\ unsaved' = (unsaved \ {r}) \cup {[r EXCEPT !.late = TRUE]}
  /\ UNCHANGED <<called, accepted, entries, unqueued, lane, work, stated, table, windows, known,
                 recall>>

\* save_transcript_entry commits: under the call's lock, which it holds until it has
\* enqueued the enrichment, and in the order of the queue but for what was delayed.
transcript_saved(r) ==
  /\ r \in unsaved /\ called[r.call] = "live"
  /\ \A q \in unsaved : q.call = r.call /\ q.nth < r.nth => q.late
  /\ \A i \in DOMAIN unqueued : CallOf(unqueued[i]) # r.call
  /\ unsaved' = unsaved \ {r}
  /\ entries' = Append(entries, r)
  /\ unqueued' = Append(unqueued, Len(entries) + 1)
  /\ UNCHANGED <<called, accepted, lane, work, stated, table, windows, known, recall>>

\* The enrichment is enqueued; or never, as the commit's answer or the refresh failed
\* and the next attempt finds the row, the queue is full, or the process dies.
enqueue_enrichment ==
  \E i \in DOMAIN unqueued :
    /\ unqueued' = RemoveAt(unqueued, i)
    /\ lane' = Append(lane, unqueued[i]) \/ UNCHANGED lane
    /\ UNCHANGED <<called, accepted, unsaved, entries, work, stated, table, windows, known,
                   recall>>

\* process_saved_transcript finds the call and the transcript and classifies what
\* the user said; the model may be too slow, or find nothing.
classify_memory_events ==
  /\ work = NoWork /\ lane # <<>> /\ lane' = Tail(lane)
  /\ LET e == Head(lane)
     IN IF ~Stored(e) THEN UNCHANGED work
        ELSE IF entries[e].speaker = "You"
        THEN \E events \in Classifications \cup {<<>>} :
               work' = [pc |-> "classified", entry |-> e, events |-> events]
        ELSE work' = [pc |-> "maintain", entry |-> e, events |-> <<>>]
  /\ UNCHANGED <<called, accepted, unsaved, entries, unqueued, stated, table, windows, known,
                 recall>>

\* The events of a transcript are applied in their order: the last that concerns a
\* fact decides.  Of a key with one value, an upsert makes the other values inactive.
Upserts(events, f) ==
  {i \in DOMAIN events : events[i].action = "upsert" /\ events[i].fact = f}
Replaces(g, f) == f.key \in Singles /\ g # f /\ g.type = f.type /\ g.key = f.key
Retires(events, f) ==
  {i \in DOMAIN events : \/ events[i].action = "deactivate" /\ events[i].fact = f
                         \/ events[i].action = "upsert" /\ Replaces(events[i].fact, f)}

Applied(events, e, f) ==
  LET up == Upserts(events, f)
      down == Retires(events, f)
      last == \E i \in up : \A j \in down : j < i
  IN IF up # {} THEN [status |-> IF last THEN "active" ELSE "inactive", source |-> e]
     ELSE IF down # {} /\ table[f] # NoRow THEN [table[f] EXCEPT !.status = "inactive"]
     ELSE table[f]

\* Fault: the facts of a transcript that is gone are kept without it.
apply_fact_eventsOrphaned ==
  /\ work.pc = "classified" /\ work' = NoWork
  /\ table' = [f \in Facts |-> Applied(work.events, work.entry, f)]
  /\ stated' = [stated EXCEPT ![work.entry] = work.events]
  /\ UNCHANGED <<called, accepted, unsaved, entries, unqueued, lane, windows, known, recall>>

\* apply_fact_events and the commit; a fact needs its transcript's row.
\* A preemption between the commit and its answer runs the job again.
apply_fact_events ==
  /\ work.pc = "classified"
  /\ LET e == work.entry
     IN IF Stored(e) \/ \A i \in DOMAIN work.events : work.events[i].action = "deactivate"
        THEN /\ table' = [f \in Facts |-> Applied(work.events, e, f)]
             /\ stated' = [stated EXCEPT ![e] = work.events]
        ELSE UNCHANGED <<table, stated>>
  /\ \/ work' = NoWork /\ UNCHANGED lane
     \/ work' = NoWork /\ lane' = <<work.entry>> \o lane
  /\ UNCHANGED <<called, accepted, unsaved, entries, unqueued, windows, known, recall>>

\* maintain_memory_chunks_if_needed: the count is that of now, not that of the
\* transcript; without an embedding there is no window.
maintain_memory_chunks ==
  /\ work.pc = "maintain" /\ work' = NoWork
  /\ LET c == CallOf(work.entry)
         own == {e \in DOMAIN entries : CallOf(e) = c}
         newest == CHOOSE e \in own : \A d \in own : d =< e
     IN \/ UNCHANGED windows
        \/ /\ called[c] # "purged"
           /\ Cardinality(own) % Eighth = 0 /\ entries[newest].speaker = "Aura"
           /\ windows' = windows \cup {[call |-> c, last |-> newest]}
  /\ UNCHANGED <<called, accepted, unsaved, entries, unqueued, lane, stated, table, known,
                 recall>>

\* Fault: a preempted job goes back to the end of the queue.
enrichment_preemptedLast ==
  /\ work # NoWork /\ work' = NoWork
  /\ lane' = Append(lane, work.entry)
  /\ UNCHANGED <<called, accepted, unsaved, entries, unqueued, stated, table, windows, known,
                 recall>>

\* A voice turn preempts the job, which is run again before all others.
enrichment_preempted ==
  /\ work # NoWork /\ work' = NoWork
  /\ lane' = <<work.entry>> \o lane
  /\ UNCHANGED <<called, accepted, unsaved, entries, unqueued, stated, table, windows, known,
                 recall>>

---------------------------------------------------------------------------
Recallable(c) == {p \in MemoryCalls \ {c} : called[p] = "ended"}
TranscriptsOf(p) == {e \in DOMAIN entries : CallOf(e) = p}

Tell(c, calls) == recall' = [recall EXCEPT ![c] = [NoRecall EXCEPT !.told = calls]]

\* build_turn_memory_context: the last call, if the turn is about it or no window
\* is close enough; its transcripts are read by a second statement.
recall_prior(c) ==
  /\ called[c] = "live" /\ recall[c].pc = "none"
  /\ \E p \in Recallable(c) :
       recall' = [recall EXCEPT ![c] = [NoRecall EXCEPT !.pc = "reading", !.prior = p]]
  /\ UNCHANGED <<called, accepted, unsaved, entries, unqueued, lane, work, stated, table,
                 windows, known>>

recall_read(c) ==
  /\ recall[c].pc = "reading"
  /\ LET p == recall[c].prior
     IN Tell(c, IF called[p] = "purged" \/ TranscriptsOf(p) = {} THEN {} ELSE {p})
  /\ UNCHANGED <<called, accepted, unsaved, entries, unqueued, lane, work, stated, table,
                 windows, known>>

\* retrieve_semantic_memories: the closest windows of ended, kept calls.
recall_windows(c) ==
  /\ called[c] = "live" /\ recall[c].pc = "none"
  /\ \E near \in (SUBSET {w.call : w \in windows}) \ {{}} :
       near \subseteq Recallable(c) /\ Tell(c, near)
  /\ UNCHANGED <<called, accepted, unsaved, entries, unqueued, lane, work, stated, table,
                 windows, known>>

\* What is said and recalled in a call, and what the user does with it later.
CallRemembers(c) ==
  \/ call_deleted(c) \/ call_restored(c) \/ call_purged(c)
  \/ \E speaker \in {"You", "Aura"} : transcript_said(c, speaker)
  \/ \E r \in unsaved : r.call = c /\ (transcript_delayed(r) \/ transcript_saved(r))
  \/ recall_prior(c) \/ recall_read(c) \/ recall_windows(c)

\* The user deletes a fact, or all.
UserForgets(facts) ==
  \/ \E f \in facts : delete_memories({f})
  \/ facts # {} /\ delete_memories({f \in Facts : table[f] # NoRow})

RememberStep ==
  \/ enqueue_enrichment \/ classify_memory_events \/ apply_fact_events
  \/ maintain_memory_chunks \/ enrichment_preempted

MemoryTypeOK ==
  /\ called \in [MemoryCalls -> {"none", "live", "ended", "deleted", "purged"}]
  /\ accepted \in 0..MaxEntries /\ unsaved \subseteq Transcripts
  /\ entries \in Seq(Transcripts)
  /\ unqueued \in Seq(DOMAIN entries) /\ lane \in Seq(DOMAIN entries)
  /\ work.pc \in {"idle", "classified", "maintain"}
  /\ \A f \in Facts :
       IF table[f] = NoRow THEN TRUE
       ELSE table[f].status \in {"active", "inactive"} /\ table[f].source \in DOMAIN entries
  /\ windows \subseteq [call : MemoryCalls, last : DOMAIN entries]
  /\ known \in [MemoryCalls -> SUBSET Facts]
  /\ \A c \in MemoryCalls : recall[c].told \subseteq MemoryCalls \ {c}

\* e is newer than d: committed later in the same call, or said later although d was
\* not delayed.
Newer(e, d) ==
  /\ CallOf(e) = CallOf(d)
  /\ e > d \/ (entries[e].nth > entries[d].nth /\ ~entries[d].late)

\* A name, a place or a language that is kept has one value: the one that was
\* committed last in its call, however often enrichment was preempted or ran again.
\* That is the one said last, unless the save of the kept one was delayed: a
\* transcript that is retried, spilled or replayed may win against what was said after it.
LatestStatementWins ==
  \A f \in {f \in Facts : f.key \in Singles /\ table[f].status = "active"} :
    /\ \A g \in Facts : g.type = f.type /\ g.key = f.key /\ table[g].status = "active" => g = f
    /\ \A e \in DOMAIN entries :
         Newer(e, table[f].source) =>
           \A i \in DOMAIN stated[e] :
             LET event == stated[e][i]
             IN ~(event.action = "upsert" /\ event.fact.type = f.type /\ event.fact.key = f.key)

\* Nothing is left of a purged call, also when its enrichment was running; what a
\* call recalls is of calls that have ended and are kept, but for a call that was
\* deleted while it was read.
MemoryOfKeptCalls ==
  [][/\ \A f \in Facts :
          table'[f].source # 0 => called'[entries[table'[f].source].call] # "purged"
     /\ \A w \in windows' : called'[w.call] # "purged"
     /\ \A c \in MemoryCalls : \A p \in recall'[c].told \ recall[c].told :
          called[p] = "ended" \/ recall[c].prior = p]_memoryVars
====
