---- MODULE MCCallerTurns ----
(* The turns of a caller on a small instance. *)
EXTENDS CallerTurns

Quiescent ==
  [words |-> 0, starts |-> 0, typed |-> 0, turns |-> 0,
   recalls |-> {FALSE}, fails |-> FALSE, google |-> FALSE, operations |-> {}, asks |-> {},
   askers |-> {}, outages |-> 0]

Complaint == [Quiescent EXCEPT !.typed = 2, !.turns = 2]

(* Two pieces of speech and two starts; a spoken turn with a question and an *)
(* interruption; requests whose attempts fail, of either provider;           *)
(* complaints that are confirmed repeatedly and cancelled meanwhile, or      *)
(* edited; the questions of other calls during two outages.                  *)
MCScopes ==
  {[Quiescent EXCEPT !.words = 2, !.starts = 2],
   [Quiescent EXCEPT !.words = 1, !.starts = 1, !.turns = 1, !.asks = {"q1"}],
   [Quiescent EXCEPT !.typed = 2, !.turns = 2, !.fails = TRUE],
   [Quiescent EXCEPT !.typed = 3, !.turns = 2, !.google = TRUE],
   [Quiescent EXCEPT !.typed = 3, !.turns = 3, !.recalls = BOOLEAN],
   [Complaint EXCEPT !.operations = {"start", "confirm", "cancel"}],
   [Complaint EXCEPT !.typed = 1, !.operations = {"start", "update", "retry", "status"}],
   [Quiescent EXCEPT !.askers = {"a1", "a2"}, !.outages = 2]}
====
