---- MODULE ModelStream ----
(***************************************************************************)
(* One request of a call to the language model, with its deadlines, its    *)
(* retries and its spoken recovery (LatencyBoundGroqLLMService in          *)
(* providers/llm/groq_llm.py, and providers/llm/stream_timeout.py).        *)
(***************************************************************************)
EXTENDS Naturals

CONSTANT MaxAttempts   \* max_attempts: at least two when there are tools

ASSUME StreamAssumption == MaxAttempts \in Nat \ {0, 1}

VARIABLES
  request,   \* the request: where it is, its attempt, whether it disabled the
             \* tools, its stream, and whether it gave the caller anything
  tools,     \* the tools of the context
  offered    \* configured_tools: those it had when the request started

requestVars == <<request, tools, offered>>

NoRequest(ended) ==
  [pc |-> "idle", attempt |-> 0, disabled |-> FALSE, stream |-> "none", output |-> FALSE,
   ended |-> ended]

StreamInit == request = NoRequest("none") /\ tools = "all" /\ offered = "all"

Trying == request.pc \in {"create", "prefetch"}
Restored == IF request.disabled THEN offered ELSE tools
Ended(how) == request' = [NoRequest(how) EXCEPT !.output = request.output]

\* ToolRoutingProcessor.route chooses the tools, then the request starts.
start_request(chosen) ==
  /\ request.pc = "idle"
  /\ tools' = chosen /\ offered' = chosen
  /\ request' = [NoRequest("none") EXCEPT !.pc = "create", !.attempt = 1]

\* The loop of attempts is left: a stream of an attempt, even one whose
\* prefetch failed and closed it, is read; without one the recovery is spoken.
leave_attempts ==
  /\ tools' = Restored
  /\ request' = [request EXCEPT !.pc = "stream", !.disabled = FALSE,
                                !.stream = IF @ = "none" THEN "recovery" ELSE @]

try_again(disabled) ==
  /\ request.attempt < MaxAttempts
  /\ request' = [request EXCEPT !.pc = "create", !.attempt = @ + 1, !.disabled = disabled,
                                !.stream = IF @ = "live" THEN "closed" ELSE @]
  /\ tools' = IF disabled THEN "none" ELSE tools

stream_created ==
  /\ request.pc = "create"
  /\ request' = [request EXCEPT !.pc = "prefetch", !.stream = "live"]
  /\ UNCHANGED tools

\* prefetch_openai_first_output returns with a text or a tool call.
first_output == request.pc = "prefetch" /\ leave_attempts

\* A time-out, a lost connection or a status of the provider: another attempt
\* if it may help and the time allows it.  A failed prefetch closes its stream.
attempt_fails ==
  /\ Trying
  /\ \/ try_again(request.disabled)
     \/ /\ tools' = Restored
        /\ request' = [request EXCEPT !.pc = "stream", !.disabled = FALSE,
                         !.stream = CASE @ = "live" -> "closed" [] @ = "none" -> "recovery"
                                      [] OTHER -> @]

\* The provider rejects a tool call: once, the tools are taken away.
tool_call_rejected == Trying /\ ~request.disabled /\ try_again(TRUE)

request_raises ==
  /\ Trying
  /\ tools' = Restored /\ Ended("raised")

---------------------------------------------------------------------------
\* bounded_openai_stream inside recovering_openai_stream.
output ==
  /\ request.pc = "stream" /\ request.stream = "live"
  /\ request' = [request EXCEPT !.output = TRUE] /\ UNCHANGED tools

\* Also a stream that ends before any output is past its deadline.
deadline ==
  /\ request.pc = "stream" /\ request.stream # "recovery"
  /\ request' = [request EXCEPT !.stream = "recovery"] /\ UNCHANGED tools

recovery_spoken ==
  /\ request.pc = "stream" /\ request.stream = "recovery"
  /\ request' = [NoRequest("answered") EXCEPT !.output = TRUE] /\ UNCHANGED tools

stream_ends ==
  /\ request.pc = "stream" /\ request.stream = "live" /\ request.output
  /\ Ended("answered") /\ UNCHANGED <<tools, offered>>

stream_raises ==
  /\ request.pc = "stream" /\ request.stream # "recovery"
  /\ Ended("raised") /\ UNCHANGED tools

RequestStep ==
  /\ \/ stream_created \/ first_output \/ attempt_fails \/ tool_call_rejected
     \/ request_raises \/ output \/ deadline \/ recovery_spoken \/ stream_raises
  /\ UNCHANGED offered

---------------------------------------------------------------------------
\* Fault: an interrupted attempt leaves the context without its tools.
cancel_requestKeepsOff ==
  IF request.pc = "idle" THEN UNCHANGED requestVars
  ELSE Ended("cancelled") /\ UNCHANGED <<tools, offered>>

\* An interruption cancels the request wherever it is.
cancel_request ==
  IF request.pc = "idle" THEN UNCHANGED requestVars
  ELSE tools' = Restored /\ Ended("cancelled") /\ UNCHANGED offered

StreamTypeOK ==
  /\ request \in [pc : {"idle", "create", "prefetch", "stream"}, attempt : 0..MaxAttempts,
                  disabled : BOOLEAN, stream : {"none", "live", "closed", "recovery"},
                  output : BOOLEAN, ended : {"none", "answered", "raised", "cancelled"}]
  /\ offered \in {"all", "issue"}
  /\ tools = IF request.disabled THEN "none" ELSE offered

\* Every request ends, with the tools of the context as they were before it and,
\* unless it was interrupted or failed for good, with something for the caller.
RequestEnds ==
  request.pc # "idle" ~>
    /\ request.pc = "idle" /\ tools = offered
    /\ request.ended = "answered" => request.output
====
