---- MODULE ContextWindow ----
(***************************************************************************)
(* The messages of a call's live context: the memory message of a turn     *)
(* (MemoryRetrievalProcessor), the draft's message                         *)
(* (ToolRoutingProcessor), the window (BoundedContextProcessor) and the    *)
(* summary that is generated beside the call (core/context_summary.py,     *)
(* providers/llm/context_summary.py).  A summary stands for a prefix of    *)
(* the messages and is applied by its length, so the code counts the       *)
(* mutations that are not appends (ContextMutationEpoch).                  *)
(***************************************************************************)
EXTENDS Naturals, Sequences, FiniteSets, SequencesExt

CONSTANTS
  Window,        \* max_messages of the window
  Keep,          \* min_messages_after_summary
  MaxMessages    \* bound: messages of a call

ASSUME ContextAssumption == Window \in Nat \ {0, 1} /\ Keep \in Nat \ {0, 1} /\ MaxMessages \in Nat

VARIABLES
  messages,   \* LLMContext.messages, each with its number and what it is
  written,    \* messages so far
  frame,      \* the turn's context frame: "none", "retrieving", "routed"
  run,        \* the model's run: "none", "starts", "running"
  busy,       \* the aggregator waits for a summary
  job         \* the summary that is generated

contextVars == <<messages, written, frame, run, busy, job>>

\* What the summary is of, whether the epoch has moved since it was started,
\* and whether a draft's message has gone from what it is of.
NoJob == [running |-> FALSE, of |-> {}, stale |-> FALSE, draftGone |-> FALSE]

ContextInit ==
  /\ messages = <<>> /\ written = 0
  /\ frame = "none" /\ run = "none" /\ busy = FALSE /\ job = NoJob

Numbers(s) == {s[i].n : i \in DOMAIN s}
\* There is at most one message of the turn's memory, and one of the draft.
Without(kind) ==
  IF \E i \in DOMAIN messages : messages[i].kind = kind
  THEN RemoveAt(messages, CHOOSE i \in DOMAIN messages : messages[i].kind = kind)
  ELSE messages
With(s, kinds) == s \o [i \in DOMAIN kinds |-> [n |-> written + i, kind |-> kinds[i]]]
Write(kinds) ==
  /\ written + Len(kinds) =< MaxMessages /\ written' = written + Len(kinds)
  /\ messages' = With(messages, kinds)

\* ContextMutationEpoch.bump; the epoch is only compared with a job's start.
Bumped == [job EXCEPT !.stale = job.running]

\* clear_dynamic_context: the last turn's memory goes.
Cleared == Without("memory")
ClearedJob == IF Cleared = messages THEN job ELSE Bumped

---------------------------------------------------------------------------
\* A user turn ends: its message, and its frame reaches the retrieval.
user_message ==
  /\ frame = "none" /\ run = "none" /\ frame' = "retrieving"
  /\ written < MaxMessages /\ written' = written + 1
  /\ messages' = With(Cleared, <<"user">>) /\ job' = ClearedJob
  /\ UNCHANGED <<run, busy>>

\* _install_memory_context, then route(): the draft's message is replaced.
route(found, drafting) ==
  /\ frame = "retrieving" /\ frame' = "routed"
  /\ LET kinds == (IF found THEN <<"memory">> ELSE <<>>) \o
                  (IF drafting THEN <<"draft">> ELSE <<>>)
         old == {m.n : m \in {m \in ToSet(messages) : m.kind = "draft"}}
     IN /\ written + Len(kinds) =< MaxMessages /\ written' = written + Len(kinds)
        /\ messages' = With(Without("draft"), kinds)
        /\ job' = [job EXCEPT !.stale = @ \/ (found /\ job.running),
                              !.draftGone = @ \/ old \cap job.of # {}]
  /\ UNCHANGED <<run, busy>>

\* A group of the window starts with a message of the role user.
GroupStarts ==
  {1} \cup {i \in DOMAIN messages : messages[i].kind \in {"user", "summary"}}

\* Fault: the window counts messages, not groups.
trimMessages(p) ==
  /\ frame = "routed" /\ frame' = "none" /\ run' = "starts"
  /\ p \in DOMAIN messages
  /\ Len(messages) - p < Window
  /\ messages' = SubSeq(messages, p, Len(messages))
  /\ job' = IF p = 1 THEN job ELSE Bumped
  /\ UNCHANGED <<written, busy>>

\* trim: the newest group, and as many before it as fit; the characters, which
\* are not modelled, may leave room for fewer.
trim(p) ==
  /\ frame = "routed" /\ frame' = "none" /\ run' = "starts"
  /\ p \in GroupStarts
  /\ p = Max(GroupStarts) \/ Len(messages) - p < Window
  /\ messages' = SubSeq(messages, p, Len(messages))
  /\ job' = IF p = 1 THEN job ELSE Bumped
  /\ UNCHANGED <<written, busy>>

---------------------------------------------------------------------------
\* get_messages_to_summarize: all but the newest, and no call without its result.
Selected ==
  LET count == IF Len(messages) > Keep THEN Len(messages) - Keep ELSE 0
  IN IF count > 0 /\ messages[count].kind = "call" THEN count - 1 ELSE count

\* A response starts; the aggregator may find that it is time for a summary.
response_begins ==
  /\ run = "starts" /\ run' = "running"
  /\ \/ UNCHANGED <<busy, job>>
     \/ /\ ~busy /\ Selected > 0 /\ busy' = TRUE
        /\ job' = [NoJob EXCEPT !.running = TRUE,
                                !.of = Numbers(SubSeq(messages, 1, Selected))]
  /\ UNCHANGED <<messages, written, frame>>

\* A tool is called, and its result runs the model again.
tool_called ==
  /\ run = "running" /\ run' = "starts"
  /\ Write(<<"call", "result">>)
  /\ UNCHANGED <<frame, busy, job>>

response_done ==
  /\ run = "running" /\ run' = "none"
  /\ Write(<<"assistant">>)
  /\ UNCHANGED <<frame, busy, job>>

\* The caller interrupts; with start_user_turn, the last turn's memory goes.  The
\* aggregator keeps what was said and no longer waits for the summary, which may
\* still come.
context_interrupted(cleared) ==
  /\ frame' = "none" /\ run' = "none" /\ busy' = FALSE
  /\ \E kinds \in {<<>>} \cup (IF run = "running" THEN {<<"assistant">>} ELSE {}) :
       /\ written + Len(kinds) =< MaxMessages /\ written' = written + Len(kinds)
       /\ messages' = With(IF cleared THEN Cleared ELSE messages, kinds)
  /\ job' = IF cleared THEN ClearedJob ELSE job

---------------------------------------------------------------------------
\* _generate_summary returns, and the aggregator applies it by its length.
summary_applied ==
  /\ job.running /\ ~job.stale /\ job' = NoJob /\ busy' = FALSE
  /\ written < MaxMessages /\ written' = written + 1
  /\ LET length == Cardinality(job.of)
     IN /\ Len(messages) - length >= Keep
        /\ messages' = With(<<>>, <<"summary">>) \o SubSeq(messages, length + 1, Len(messages))
  /\ UNCHANGED <<frame, run>>

\* It fails, or it is stale.
summary_discarded ==
  /\ job.running /\ job' = NoJob /\ busy' = FALSE
  /\ UNCHANGED <<messages, written, frame, run>>

ContextFlows ==
  \/ user_message \/ \E found, drafting \in BOOLEAN : route(found, drafting)
  \/ \E p \in DOMAIN messages : trim(p)
  \/ summary_applied \/ summary_discarded

ContextStep ==
  \/ ContextFlows \/ response_begins \/ tool_called \/ response_done
  \/ \E cleared \in BOOLEAN : context_interrupted(cleared)

ContextSpec == ContextInit /\ [][ContextStep]_contextVars

ContextTypeOK ==
  /\ written \in 0..MaxMessages
  /\ messages \in Seq([n : 1..written, kind : {"user", "assistant", "call", "result", "memory",
                                               "draft", "summary"}])
  /\ frame \in {"none", "retrieving", "routed"} /\ run \in {"none", "starts", "running"}
  /\ busy \in BOOLEAN /\ (busy => job.running)
  /\ job \in [running : BOOLEAN, of : SUBSET (1..written), stale : BOOLEAN, draftGone : BOOLEAN]

\* What a summary takes out of the context is what it is a summary of.
SummaryReplacesItsOwn ==
  [][summary_applied => Numbers(messages) \ Numbers(messages') = job.of]_contextVars

Orphans(s) ==
  {s[i].n : i \in {i \in DOMAIN s : s[i].kind = "result" /\ (i = 1 \/ s[i - 1].kind # "call")}}

\* Neither the window nor a summary leaves a tool's result without its call,
\* which no provider accepts, unless a draft's message went from what the summary
\* is of.
ResultsKeepCalls ==
  [][job.draftGone \/ Orphans(messages') \subseteq Orphans(messages)]_contextVars
====
