---- MODULE MCTurnGate ----
(***************************************************************************)
(* Instances of TurnGate, TurnRecords and ToolRecords for TLC.             *)
(***************************************************************************)
EXTENDS TurnRecords, ToolRecords

CONSTANTS s1, s2, i1, i2, c1, c2

VARIABLE scope    \* bound: what takes part in a behaviour, chosen at its start

Nothing ==
  [part |-> "gate", sessions |-> {s1}, tools |-> {}, items |-> {}, turns |-> 1,
   page |-> FALSE, typed |-> FALSE, diagnosed |-> FALSE, calls |-> {}, faults |-> 0]

(* Two calls of one turn that share the gate, one of them without tools,   *)
(* with one enrichment job; one call of two turns, with more jobs than the *)
(* lane can queue; calls without tools whose turns are recorded, one turn  *)
(* of the page or two of another client; a call whose tools are recorded,  *)
(* one in two turns; and, with typed text, two of them, one beside an     *)
(* entry that may be its filler, entries whose jobs fill the lane, or      *)
(* failures of other components.                                           *)
Scopes ==
  {[Nothing EXCEPT !.sessions = {s1, s2}, !.tools = {s1}, !.items = {i1}],
   [Nothing EXCEPT !.tools = {s1}, !.items = {i1, i2}, !.turns = 2],
   [Nothing EXCEPT !.part = "records", !.page = TRUE],
   [Nothing EXCEPT !.part = "records", !.turns = 2],
   [Nothing EXCEPT !.part = "tools", !.tools = {s1}, !.turns = 2, !.calls = {c1}, !.faults = 1],
   [Nothing EXCEPT !.part = "tools", !.tools = {s1}, !.typed = TRUE, !.calls = {c1, c2}],
   [Nothing EXCEPT !.part = "tools", !.tools = {s1}, !.typed = TRUE, !.items = {i1}, !.calls = {c1}],
   [Nothing EXCEPT !.part = "tools", !.typed = TRUE, !.items = {i1, i2}],
   [Nothing EXCEPT !.part = "tools", !.typed = TRUE, !.diagnosed = TRUE, !.faults = 2]}

TurnOf(s) == <<turnId[s], active[s], speechOpen[s], identityOpen[s], llmSeen[s], audioSeen[s],
               cancelled[s], fillerSpoken[s], llmRun[s], tool[s], audio[s], replyTurn[s]>>

InScope ==
  /\ \A s \in Sessions : IF s \in scope.sessions THEN turnId'[s] =< scope.turns
                         ELSE TurnOf(s)' = TurnOf(s)
  /\ \A i \in Items \ scope.items : outcome'[i] = "new"
  /\ \A s \in Sessions \ scope.tools : tool'[s] = tool[s]
  /\ \A c \in ToolCalls \ scope.calls : called'[c] = "new"
  /\ scope.typed => UNCHANGED <<speechOpen, audioSeen>>
  /\ scope.diagnosed \/ \A s \in saves' \cup fallbacks' : s.of # "pipeline"
  /\ said' \subseteq scope.items /\ saveFaults' =< scope.faults
  /\ scope.page => repeats' = 0 /\ Cardinality(posts') =< 1
  /\ UNCHANGED scope

Step ==
  CASE scope.part = "gate" -> Next /\ UNCHANGED <<recordVars, toolVars>>
    [] scope.part = "records" -> RecordsNext /\ UNCHANGED toolVars
    [] OTHER -> ToolsNext /\ UNCHANGED recordVars

ScopedInit == scope \in Scopes /\ browser = scope.page /\ Init /\ RecordsInit /\ ToolInit

ScopedSpec ==
  /\ ScopedInit
  /\ [][Step /\ InScope]_<<vars, recordVars, toolVars, scope>> /\ WF_vars(WorkerStep)
====
